---- MODULE Spec2Model ----
(***************************************************************************)
(* The download engine of gofile-dl (src/run.py): GoFile.download, the     *)
(* resumable chunked transfer with retry, and GoFile.execute, the          *)
(* recursive walk of a content tree, together with DownloadTracker.        *)
(*                                                                         *)
(* Sizes are counted in chunks: iter_content delivers the body one chunk   *)
(* at a time and every length the code computes is a sum of chunk lengths. *)
(***************************************************************************)
EXTENDS Integers, Sequences, FiniteSets, TLC

(***************************************************************************)
(* Bounds of the model.                                                    *)
(***************************************************************************)
\* largest retry_attempts a caller passes
MaxRetry == 2
\* largest remote file, in chunks
MaxChunks == 3
\* how many times the collaborator flips the paused flag during a run
MaxPauses == 2
\* largest throttled stream, in bytes, and largest chunk of it
MaxBytes == 5
MaxChunkLen == 2
\* latest clock reading at which the stream is still waited for
MaxClock == 4
\* execute calls one worker makes on the shared GoFile instance
MaxCalls == 2
\* children of the folder whose loop is followed on its own
MaxChildren == 50
\* execute calls made for one content id, one after the other
MaxRuns == 2

(***************************************************************************)
(* The callback sets the repository passes to the engine.                  *)
(*   "none" : no callback (the bare download(...) calls of the tests)      *)
(*   "mock" : callables accepting any arguments (MagicMock in the tests)   *)
(*   "app"  : the closures of app.py's download_task;                      *)
(*            file_progress_callback(filename, percentage, size=None)      *)
(*   "cli"  : the lambdas of run.py's main();                              *)
(*            file_progress_callback = lambda f, p: ...                    *)
(***************************************************************************)
CallbackSets == {"none", "mock", "app", "cli"}

\* the per-file callback takes the keyword size= that download passes
AcceptsSize(cb) == cb \in {"mock", "app"}

\* the per-file callback takes the keyword retry_info= that download passes
AcceptsRetryInfo(cb) == cb = "mock"

(***************************************************************************)
(* The remote content: what GET /contents/{id} answers.  "root" holds a    *)
(* file, a subfolder and a second file, "sub" one file, "empty" nothing;   *)
(* "f0" is a file asked for by its own id.                                 *)
(***************************************************************************)
Files == {"f0", "f1", "f2", "f3"}
Folders == {"root", "sub", "empty"}

\* data["data"]["children"], in the order the API returns them
children(cid) ==
  CASE cid = "root"  -> <<"f1", "sub", "f2">>
    [] cid = "sub"   -> <<"f3">>
    [] OTHER         -> << >>

\* data["data"]["name"], child["name"]
name(cid) ==
  CASE cid = "root"  -> "Ro/ot"
    [] cid = "sub"   -> "Sub"
    [] cid = "empty" -> "Empty"
    [] cid = "f0"    -> "zero.bin"
    [] cid = "f1"    -> "a.txt"
    [] cid = "f2"    -> "c.txt"
    [] OTHER         -> "b.txt"

\* sanitize_filename of pathvalidate on the names of the tree: the path
\* separator is not a filename character and is removed
sanitize_filename(filename) ==
  CASE filename = "Ro/ot" -> "Root"
    [] OTHER              -> filename

VARIABLES
  pc,        \* position of the worker
  ret,       \* who called download: "caller", "ex_file" or "ex_child"
  dl,        \* locals of the running download call, with its call history
  part,      \* file -> the file + ".part" on disk: exists, size
  final,     \* file -> the final-named file exists
  fsize,     \* file -> size of the remote file
  cancel,    \* cancel_event.is_set()
  paused,    \* what pause_callback() returns
  pauses,    \* flips of the paused flag so far
  retry_attempts,
  cbSet,
  fcb,       \* file -> what file_progress_callback was last called with
  call,      \* content_id of the execute call being entered
  stack,     \* the folder frames of the recursion, innermost last
  incremental,
  tracker,   \* DownloadTracker.downloaded_files
  saved,     \* the tracking file on disk
  links,     \* the file children whose listing carries a download link
  dirs,      \* the folders whose directory os.makedirs created
  ovLog,     \* folder -> the percents overall_progress_callback got for it
  names,     \* the arguments of the name_callback calls, in order
  xfers,     \* file -> number of download calls execute made for it
  url,       \* the url argument of the outermost execute call, None without
  resp,      \* data: the answer of the content endpoint the worker holds
  status,    \* download_tasks[task_id]['status']
  failedDirs, \* the folders for whose directory os.makedirs raised
  th,        \* the clock and the rate tracking of a throttled download
  sess,      \* the GoFile singleton (token, wt) and the workers calling execute
  download_tasks, \* app.py: task id -> the task's entry of the registry
  thread,    \* task id -> where the task's download_task thread is
  request,   \* the HTTP request the web app is about to handle
  response,  \* the last HTTP response the web app gave
  fold,      \* one folder node: its name, the parent directory, the path chosen
  ov,        \* one folder's loop: its counters and what overall_progress_callback got
  tk         \* the tracker of one content id over several runs, with its tracking file

dlvars == <<pc, ret, dl, part, final, fcb>>
envvars == <<fsize, cancel, paused, pauses, retry_attempts, cbSet, incremental, links>>
exvars == <<call, stack, tracker, saved, dirs, failedDirs, ovLog, names, xfers>>
webvars == <<download_tasks, thread, request, response, fold, ov, tk>>
appvars == <<url, status, th, sess, webvars>>
vars == <<dlvars, envvars, exvars, appvars, resp>>

Absent == [exists |-> FALSE, size |-> 0]

\* a variant of getsize that takes an existing partial file for empty: every
\* attempt would start at offset 0
getsizeFromScratch(p) == IF p.exists THEN 0 ELSE p.size

\* os.path.getsize(temp) if os.path.exists(temp) else 0
getsize(p) == IF p.exists THEN p.size ELSE 0

\* int(downloaded * 100 / total_size)
percentage(downloaded, total_size) == (downloaded * 100) \div total_size

(***************************************************************************)
(* file_progress_callback as the collaborator records it: the last percent *)
(* delivered for a path.  With no callback nothing is recorded.            *)
(***************************************************************************)
\* an optional argument: << >> is None, <<n>> the value n
None == << >>
Some(n) == <<n>>

NeverCalled == [called |-> FALSE, last |-> 0]

file_progress_callback(log, cb, f, p) ==
  IF cb = "none" THEN log
  ELSE [log EXCEPT ![f] = [called |-> TRUE, last |-> p]]

(***************************************************************************)
(* GoFile.download                                                         *)
(***************************************************************************)
\* temp = file + ".part"; attempts = 0, and the history of the call:
\* requests sent, the last Range offset, sleeps, -1 and -2 signals, chunks
\* written, chunks written when cancel_event was set during the call, the
\* value of downloaded when Cancelled was first raised, the size= passed
\* with the 100 of a success, the chunks written since the paused flag last
\* turned true
NewDownload(f) ==
  [file |-> f, attempts |-> 0, size |-> 0, total_size |-> 0,
   downloaded |-> 0, avail |-> 0,
   requests |-> 0, range |-> 0, sleeps |-> 0, nRetry |-> 0, nFail |-> 0,
   written |-> 0, cb100 |-> None, cancelSetAt |-> 0, cancelAt |-> 0,
   latency |-> 0, outcome |-> "running"]

\* a variant of the except clause whose final failure leaves the .part file
\* on disk
ExceptKeepsPart(d, prt, log) ==
  LET a == d.attempts + 1 IN
  IF a <= retry_attempts
  THEN IF cbSet /= "none" /\ ~AcceptsRetryInfo(cbSet)
       THEN /\ dl' = [d EXCEPT !.attempts = a, !.outcome = "raised"]
            /\ part' = prt
            /\ fcb' = log
            /\ pc' = "dl_raised"
       ELSE /\ dl' = [d EXCEPT !.attempts = a,
                               !.nRetry = IF cbSet = "none" THEN @ ELSE @ + 1,
                               !.sleeps = @ + 1]
            /\ part' = prt
            /\ fcb' = file_progress_callback(log, cbSet, d.file, -1)
            /\ pc' = "dl_loop"
  ELSE /\ dl' = [d EXCEPT !.attempts = a,
                          !.nFail = IF cbSet = "none" THEN @ ELSE @ + 1,
                          !.outcome = "failed"]
       /\ part' = prt
       /\ fcb' = file_progress_callback(log, cbSet, d.file, -2)
       /\ pc' = "dl_returned"

\* the except clause of the retry loop, entered with the locals d, the
\* partial files prt and the callback record log the attempt left behind
Except(d, prt, log) ==
  LET a == d.attempts + 1 IN
  IF a <= retry_attempts
  THEN IF cbSet /= "none" /\ ~AcceptsRetryInfo(cbSet)
       THEN \* file_progress_callback(file, -1, retry_info=...) raises TypeError
            \* inside the handler: it leaves download
            /\ dl' = [d EXCEPT !.attempts = a, !.outcome = "raised"]
            /\ part' = prt
            /\ fcb' = log
            /\ pc' = "dl_raised"
       ELSE /\ dl' = [d EXCEPT !.attempts = a,
                               !.nRetry = IF cbSet = "none" THEN @ ELSE @ + 1,
                               !.sleeps = @ + 1]
            /\ part' = prt
            /\ fcb' = file_progress_callback(log, cbSet, d.file, -1)
            /\ pc' = "dl_loop"
  ELSE \* budget exhausted: os.remove(temp) if it exists, signal -2, break
       /\ dl' = [d EXCEPT !.attempts = a,
                          !.nFail = IF cbSet = "none" THEN @ ELSE @ + 1,
                          !.outcome = "failed"]
       /\ part' = [prt EXCEPT ![d.file] = Absent]
       /\ fcb' = file_progress_callback(log, cbSet, d.file, -2)
       /\ pc' = "dl_returned"

\* requests.get or raise_for_status raises
DlRequestFail ==
  /\ pc = "dl_loop"
  /\ dl.attempts <= retry_attempts
  /\ LET size == getsize(part[dl.file]) IN
       Except([dl EXCEPT !.size = size, !.range = size, !.requests = @ + 1],
              part, fcb)
  /\ UNCHANGED <<final, ret, envvars, appvars, resp, exvars>>

\* the response arrives: total_size, the callback at 0 with the size, open(temp, "ab")
DlRequestOk ==
  /\ pc = "dl_loop"
  /\ dl.attempts <= retry_attempts
  /\ LET size == getsize(part[dl.file]) IN
     /\ size < fsize[dl.file]            \* the Range is satisfiable
     /\ \E hasLength \in BOOLEAN :
          LET content_length == IF hasLength THEN fsize[dl.file] - size ELSE 0
              d == [dl EXCEPT !.size = size, !.range = size,
                              !.requests = @ + 1,
                              !.total_size = content_length + size,
                              !.downloaded = size,
                              !.avail = fsize[dl.file] - size]
          IN IF cbSet /= "none" /\ ~AcceptsSize(cbSet)
             THEN Except(d, part, fcb)     \* TypeError: unexpected keyword size
             ELSE /\ dl' = d
                  /\ fcb' = file_progress_callback(fcb, cbSet, dl.file, 0)
                  /\ part' = [part EXCEPT ![dl.file] = [exists |-> TRUE, size |-> size]]
                  /\ pc' = "dl_stream"
  /\ UNCHANGED <<final, ret, envvars, appvars, resp, exvars>>

\* f.write(chunk) and everything after it in the body of the chunk loop
WriteChunk(d0) ==
  LET f == d0.file
      prt == [part EXCEPT ![f].size = @ + 1]
      d == [d0 EXCEPT !.downloaded = @ + 1, !.written = @ + 1,
                      !.latency = IF paused THEN @ + 1 ELSE 0]
  IN IF cbSet /= "none" /\ d.total_size = 0
     THEN Except(d, prt, fcb)              \* ZeroDivisionError
     ELSE LET log == IF cbSet = "none" THEN fcb
                     ELSE file_progress_callback(fcb, cbSet, f,
                                 percentage(d.downloaded, d.total_size))
          IN IF cancel
             THEN \* raise Exception("Cancelled")
                  Except([d EXCEPT !.cancelAt = IF @ = 0 THEN d.downloaded ELSE @],
                         prt, log)
             ELSE /\ dl' = d
                  /\ part' = prt
                  /\ fcb' = log
                  /\ pc' = "dl_stream"

\* a variant of the chunk loop that does not poll pause_callback
DlChunkNoPoll ==
  /\ pc = "dl_stream"
  /\ dl.avail > 0
  /\ dl' = [dl EXCEPT !.avail = @ - 1]
  /\ pc' = "dl_write"
  /\ UNCHANGED <<part, fcb>>
  /\ UNCHANGED <<final, ret, envvars, appvars, resp, exvars>>

\* iter_content yields the next chunk and pause_callback() is polled: true
\* leads into the wait loop, false on to the write
DlChunk ==
  /\ pc = "dl_stream"
  /\ dl.avail > 0
  /\ dl' = [dl EXCEPT !.avail = @ - 1]
  /\ pc' = IF paused THEN "dl_paused" ELSE "dl_write"
  /\ UNCHANGED <<part, fcb>>
  /\ UNCHANGED <<final, ret, envvars, appvars, resp, exvars>>

\* a variant of the wait loop that goes on sleeping after a poll that returns
\* false
DlResumeKeepsWaiting ==
  /\ pc = "dl_paused"
  /\ ~paused
  /\ pc' = "dl_paused"
  /\ UNCHANGED <<dl, part, fcb>>
  /\ UNCHANGED <<final, ret, envvars, appvars, resp, exvars>>

\* while pause_callback(): time.sleep(0.5) ends on a poll that returns false
DlResume ==
  /\ pc = "dl_paused"
  /\ ~paused
  /\ pc' = "dl_write"
  /\ UNCHANGED <<dl, part, fcb>>
  /\ UNCHANGED <<final, ret, envvars, appvars, resp, exvars>>

\* the body of the chunk loop from f.write(chunk) on
DlWrite ==
  /\ pc = "dl_write"
  /\ WriteChunk(dl)
  /\ UNCHANGED <<final, ret, envvars, appvars, resp, exvars>>

\* iter_content raises (connection lost)
DlStreamError ==
  /\ pc = "dl_stream"
  /\ Except(dl, part, fcb)
  /\ UNCHANGED <<final, ret, envvars, appvars, resp, exvars>>

\* a variant of the last step that copies the .part file instead of renaming it
DlFinishCopy ==
  /\ pc = "dl_stream"
  /\ dl.avail = 0
  /\ final' = [final EXCEPT ![dl.file] = TRUE]
  /\ fcb' = file_progress_callback(fcb, cbSet, dl.file, 100)
  /\ dl' = [dl EXCEPT !.cb100 = IF cbSet = "none" THEN None ELSE Some(dl.total_size),
                      !.outcome = "success"]
  /\ pc' = "dl_returned"
  /\ UNCHANGED <<part, ret, envvars, appvars, resp, exvars>>

\* the stream ended: os.rename(temp, file), the callback at 100, return
DlFinish ==
  /\ pc = "dl_stream"
  /\ dl.avail = 0
  /\ part' = [part EXCEPT ![dl.file] = Absent]
  /\ final' = [final EXCEPT ![dl.file] = TRUE]
  /\ fcb' = file_progress_callback(fcb, cbSet, dl.file, 100)
  /\ dl' = [dl EXCEPT !.cb100 = IF cbSet = "none" THEN None ELSE Some(dl.total_size),
                      !.outcome = "success"]
  /\ pc' = "dl_returned"
  /\ UNCHANGED <<ret, envvars, appvars, resp, exvars>>

download ==
  \/ DlRequestFail
  \/ DlRequestOk
  \/ DlChunk
  \/ DlResume
  \/ DlWrite
  \/ DlStreamError
  \/ DlFinish

(***************************************************************************)
(* DownloadTracker                                                         *)
(***************************************************************************)
\* key = f"{file_id}:{file_name}"
TrackerKey(file_id, file_name) == file_id \o ":" \o file_name

\* a variant of is_downloaded that builds its key in the other order
is_downloadedSwapped(downloaded_files, file_id, file_name) ==
  TrackerKey(file_name, file_id) \in downloaded_files

is_downloaded(downloaded_files, file_id, file_name) ==
  TrackerKey(file_id, file_name) \in downloaded_files

\* a variant of mark_downloaded that assigns the new key instead of adding it
mark_downloadedAlone(downloaded_files, file_id, file_name) ==
  {TrackerKey(file_id, file_name)}

\* downloaded_files.add(key), the first half of mark_downloaded
mark_downloaded(downloaded_files, file_id, file_name) ==
  downloaded_files \cup {TrackerKey(file_id, file_name)}

\* the tracking file of a content id: missing, or holding the 'files' list
\* last written, or left unreadable
NoFile == [state |-> "missing", files |-> {}]
Written(files) == [state |-> "ok", files |-> files]
Unreadable == [state |-> "corrupt", files |-> {}]

\* load_tracking_data: the set of the 'files' list; a file that is missing
\* leaves the set empty, one that cannot be read or parsed resets it
load_tracking_data(tracking_file) ==
  IF tracking_file.state = "ok" THEN tracking_file.files ELSE {}

\* what becomes of the attempt to write: the file is rewritten; makedirs or
\* open raises and the file stays as it was; json.dump raises after open
\* truncated the file.  The exception is logged and nothing else.
SaveOutcomes == {"written", "unopened", "truncated"}

\* save_tracking_data: the whole of downloaded_files is written over the file
save_tracking_data(tracking_file, downloaded_files, outcome) ==
  CASE outcome = "written"  -> Written(downloaded_files)
    [] outcome = "unopened" -> tracking_file
    [] OTHER                -> Unreadable

(***************************************************************************)
(* GoFile.execute                                                          *)
(***************************************************************************)
Top == stack[Len(stack)]
Pop == SubSeq(stack, 1, Len(stack) - 1)
TopLevel == stack = << >>

\* overall_progress_callback(percent, folder_name)
overall_progress_callback(log, cid, percent) ==
  IF cbSet = "none" THEN log ELSE [log EXCEPT ![cid] = Append(@, percent)]

(***************************************************************************)
(* int((files_completed / overall_total) * 100) in IEEE double precision.  *)
(* files_completed and overall_total are floats holding whole numbers k    *)
(* and n, 0 <= k <= n.  When 100k/n is not a whole number the two          *)
(* roundings cannot carry the product across one, and int() gives the      *)
(* exact floor.  When 100k/n is a whole number p, the quotient k/n is      *)
(* rounded to 53 bits first: rounded up, or exact, the product is at least *)
(* p; rounded down by the fraction r/n of its last bit, the product falls  *)
(* short of p by 100 * r/n of that bit and is rounded back to p only if    *)
(* that is no more than half the gap between p and the double below it.    *)
(***************************************************************************)
MantissaBits == 52

RECURSIVE Pow2(_)
Pow2(e) == IF e = 0 THEN 1 ELSE 2 * Pow2(e - 1)

\* the s >= 1 with 1 <= (k/n) * 2^s < 2, for 0 < k < n
RECURSIVE Shift(_, _, _)
Shift(k, n, s) == IF k * Pow2(s) >= n THEN s ELSE Shift(k, n, s + 1)

\* floor(log2(p)) for p >= 1
RECURSIVE Log2(_)
Log2(p) == IF p < 2 THEN 0 ELSE 1 + Log2(p \div 2)

\* k * 2^steps divided by n, bit by bit: <<remainder, last bit of the quotient>>
RECURSIVE Divide(_, _, _, _)
Divide(rem, bit, n, steps) ==
  IF steps = 0 THEN <<rem, bit>>
  ELSE IF 2 * rem >= n THEN Divide(2 * rem - n, 1, n, steps - 1)
       ELSE Divide(2 * rem, 0, n, steps - 1)

overall_percent(files_completed, overall_total) ==
  LET k == files_completed
      n == overall_total
      p == (k * 100) \div n
  IN IF k = 0 \/ k = n \/ (k * 100) % n /= 0 THEN p
     ELSE LET s == Shift(k, n, 1)
              qr == Divide(k, 0, n, s + MantissaBits)
              r == qr[1]
              down == 2 * r < n \/ (2 * r = n /\ qr[2] = 0)
              \* the exponent of the doubles just below p
              e == IF Pow2(Log2(p)) = p THEN Log2(p) - 1 ELSE Log2(p)
          IN IF r > 0 /\ down /\ 200 * r > n * Pow2(s + e) THEN p - 1 ELSE p

\* tracker = DownloadTracker(dir, content_id, folder_pattern) in the outermost
\* call of an incremental run: load_tracking_data reads the tracking file
LoadTracker ==
  tracker' = IF incremental /\ TopLevel THEN load_tracking_data(saved) ELSE tracker

\* the execute call returns to the folder loop that made it, or to the caller
ReturnTo(stk) == IF stk = << >> THEN "done" ELSE "ex_returned"
RaiseTo(stk) == IF stk = << >> THEN "raised" ELSE "ex_raised"

\* what GET /contents/{id} answers when the content cannot be served: an
\* error status (unknown id), or status ok with a password status that is not
\* passwordOk; NoResponse stands for requests.get or response.json() raising
NoResponse == [status |-> "exception", passwordStatus |-> "passwordOk"]
NotFetched == [status |-> "", passwordStatus |-> ""]
OkData == [status |-> "ok", passwordStatus |-> "passwordOk"]
FetchFailures ==
  {NoResponse,
   [status |-> "error-notFound", passwordStatus |-> "passwordOk"],
   [status |-> "ok", passwordStatus |-> "passwordRequired"],
   [status |-> "ok", passwordStatus |-> "passwordWrong"]}

\* a variant that checks the answer only after the directory was created
ExFetchFailAfterMakedirs ==
  /\ pc = "ex_call"
  /\ LoadTracker
  /\ resp' \in FetchFailures
  /\ dirs' = dirs \cup {call}
  /\ pc' = ReturnTo(stack)
  /\ UNCHANGED <<ret, dl, part, final, fcb, envvars, appvars,
                 call, stack, saved, failedDirs, ovLog, names, xfers>>

\* the request fails, or the status is not ok, or the password status is
\* not passwordOk: logged, execute returns
ExFetchFail ==
  /\ pc = "ex_call"
  /\ LoadTracker
  /\ resp' \in FetchFailures
  /\ pc' = ReturnTo(stack)
  /\ UNCHANGED <<ret, dl, part, final, fcb, envvars, appvars,
                 call, stack, saved, dirs, failedDirs, ovLog, names, xfers>>

\* a URL as url.split("/") sees it: the sequence of its segments
UrlPrefix == <<"https:", "", "gofile.io", "d">>

\* url.startswith("https://gofile.io/d/")
startswith(u) == Len(u) > Len(UrlPrefix) /\ SubSeq(u, 1, Len(UrlPrefix)) = UrlPrefix

\* url.split("/")[-1]
LastSegment(u) == u[Len(u)]

\* the elif url is not None branch: a matching URL is resolved to its content
\* id and execute calls itself with it, passing every callback on; any other
\* URL is logged as invalid and execute returns
ExUrl ==
  /\ pc = "ex_url"
  /\ IF startswith(url)
     THEN /\ call' = LastSegment(url)
          /\ pc' = "ex_call"
     ELSE /\ pc' = "done"
          /\ UNCHANGED call
  /\ UNCHANGED <<ret, dl, part, final, fcb, envvars, appvars, resp,
                 stack, tracker, saved, dirs, failedDirs, ovLog, names, xfers>>

\* a variant in which the recursive calls are given the name callback too
name_callbackInSubcalls(log, cb, outermost, new_name) ==
  IF cb /= "none" THEN Append(log, new_name) ELSE log

\* if name_callback: name_callback(...); the calls execute makes for the
\* subfolders pass name_callback=None
name_callback(log, cb, outermost, new_name) ==
  IF outermost /\ cb /= "none" THEN Append(log, new_name) ELSE log

\* type == "folder": name_callback, os.makedirs, then the children
ExFolder ==
  /\ pc = "ex_call"
  /\ call \in Folders
  /\ LoadTracker
  /\ resp' = OkData
  /\ names' = name_callback(names, cbSet, TopLevel, sanitize_filename(name(call)))
  /\ \E created \in BOOLEAN :
       IF ~created
       THEN \* PermissionError or OSError, re-raised
            /\ pc' = RaiseTo(stack)
            /\ failedDirs' = failedDirs \cup {call}
            /\ UNCHANGED <<stack, dirs, ovLog>>
       ELSE /\ dirs' = dirs \cup {call}
            /\ UNCHANGED failedDirs
            /\ IF children(call) = << >>
               THEN /\ ovLog' = overall_progress_callback(ovLog, call, 100)
                    /\ pc' = ReturnTo(stack)
                    /\ UNCHANGED stack
               ELSE /\ stack' = Append(stack, [cid |-> call, idx |-> 1, files_completed |-> 0, errors |-> 0])
                    /\ pc' = "ex_loop"
                    /\ UNCHANGED ovLog
  /\ UNCHANGED <<ret, dl, part, final, fcb, envvars, appvars, call, saved, xfers>>

\* any other type, reached by its own content id: the file branch
ExFile ==
  /\ pc = "ex_call"
  /\ call \in Files
  /\ LoadTracker
  /\ resp' = OkData
  /\ names' = name_callback(names, cbSet, TopLevel, sanitize_filename(name(call)))
  /\ fcb' = file_progress_callback(fcb, cbSet, call, 0)
  /\ dl' = NewDownload(call)
  /\ xfers' = [xfers EXCEPT ![call] = @ + 1]
  /\ ret' = "ex_file"
  /\ pc' = "dl_loop"
  /\ UNCHANGED <<part, final, envvars, appvars, call, stack, saved, dirs, failedDirs, ovLog>>

\* download returned to the file branch
ExFileDone ==
  /\ pc = "dl_returned"
  /\ ret = "ex_file"
  /\ fcb' = file_progress_callback(fcb, cbSet, dl.file, 100)
  /\ pc' = "done"
  /\ UNCHANGED <<ret, dl, part, final, envvars, appvars, resp, exvars>>

\* download raised in the file branch: the exception leaves execute
ExFileRaised ==
  /\ pc = "dl_raised"
  /\ ret = "ex_file"
  /\ pc' = "raised"
  /\ UNCHANGED <<ret, dl, part, final, fcb, envvars, appvars, resp, exvars>>

\* the child loop of the innermost folder
Kids == children(Top.cid)

\* a variant of the loop head without the cancel_event check
InLoopWithoutCancelCheck == pc = "ex_loop" /\ Top.idx <= Len(Kids)

InLoop == pc = "ex_loop" /\ Top.idx <= Len(Kids) /\ ~cancel

\* a variant of the loop that takes the children from the last to the first
ChildFromLast == Kids[Len(Kids) + 1 - Top.idx]

\* for child_id, child in children.items(): the child the loop is at
Child == Kids[Top.idx]

\* files_completed += 1 and on to the next child; with progress, the update
\* after the child is reached (no continue on the way); caught counts the
\* "Error processing child" lines the frame logged
Advance(progress, caught) ==
  LET fr == Top
      done == fr.files_completed + 1
  IN /\ stack' = [stack EXCEPT ![Len(stack)] =
                     [fr EXCEPT !.idx = @ + 1, !.files_completed = done,
                                !.errors = @ + caught]]
     /\ ovLog' = IF progress
                 THEN overall_progress_callback(ovLog, fr.cid,
                          overall_percent(done, Len(children(fr.cid))))
                 ELSE ovLog

\* a variant of the end of the loop that returns on cancellation without
\* marking the folder complete
ExLoopEndSilentOnCancel ==
  /\ pc = "ex_loop"
  /\ Top.idx > Len(Kids) \/ cancel
  /\ ovLog' = IF cancel THEN ovLog
              ELSE overall_progress_callback(ovLog, Top.cid, 100)
  /\ stack' = Pop
  /\ pc' = ReturnTo(Pop)
  /\ UNCHANGED <<ret, dl, part, final, fcb, envvars, appvars, resp,
                 call, tracker, saved, dirs, failedDirs, names, xfers>>

\* the loop is exhausted, or cancel_event is set at the top of an iteration:
\* the folder is marked complete
ExLoopEnd ==
  /\ pc = "ex_loop"
  /\ Top.idx > Len(Kids) \/ cancel
  /\ ovLog' = overall_progress_callback(ovLog, Top.cid, 100)
  /\ stack' = Pop
  /\ pc' = ReturnTo(Pop)
  /\ UNCHANGED <<ret, dl, part, final, fcb, envvars, appvars, resp,
                 call, tracker, saved, dirs, failedDirs, names, xfers>>

\* child_type == "folder": self.execute(dir=folder_path, content_id=child_id, ...)
ExChildFolder ==
  /\ InLoop
  /\ Child \in Folders
  /\ call' = Child
  /\ pc' = "ex_call"
  /\ UNCHANGED <<ret, dl, part, final, fcb, envvars, appvars, resp,
                 stack, tracker, saved, dirs, failedDirs, ovLog, names, xfers>>

\* incremental and tracker.is_downloaded(child_id, filename): skip, continue
ExChildSkip ==
  /\ InLoop
  /\ Child \in Files
  /\ incremental /\ is_downloaded(tracker, Child, name(Child))
  /\ fcb' = file_progress_callback(fcb, cbSet, Child, 100)
  /\ Advance(FALSE, 0)
  /\ UNCHANGED <<pc, ret, dl, part, final, envvars, appvars, resp,
                 call, tracker, saved, dirs, failedDirs, names, xfers>>

\* a variant without the check of the link: the transfer is called with ""
ExChildNoLinkStillDownloads ==
  /\ InLoop
  /\ Child \in Files
  /\ ~(incremental /\ is_downloaded(tracker, Child, name(Child)))
  /\ Child \notin links
  /\ fcb' = file_progress_callback(fcb, cbSet, Child, 0)
  /\ dl' = NewDownload(Child)
  /\ xfers' = [xfers EXCEPT ![Child] = @ + 1]
  /\ ret' = "ex_child"
  /\ pc' = "dl_loop"
  /\ UNCHANGED <<part, final, envvars, appvars, resp, call, stack, tracker,
                 saved, dirs, failedDirs, ovLog, names>>

\* no download link: logged, continue
ExChildNoLink ==
  /\ InLoop
  /\ Child \in Files
  /\ ~(incremental /\ is_downloaded(tracker, Child, name(Child)))
  /\ Child \notin links
  /\ Advance(FALSE, 0)
  /\ UNCHANGED <<pc, ret, dl, part, final, fcb, envvars, appvars, resp,
                 call, tracker, saved, dirs, failedDirs, names, xfers>>

\* file_progress_callback(file_path, 0); self.download(link, file_path, ...)
ExChildDownload ==
  /\ InLoop
  /\ Child \in Files
  /\ ~(incremental /\ is_downloaded(tracker, Child, name(Child)))
  /\ Child \in links
  /\ fcb' = file_progress_callback(fcb, cbSet, Child, 0)
  /\ dl' = NewDownload(Child)
  /\ xfers' = [xfers EXCEPT ![Child] = @ + 1]
  /\ ret' = "ex_child"
  /\ pc' = "dl_loop"
  /\ UNCHANGED <<part, final, envvars, appvars, resp, call, stack, tracker, saved, dirs, failedDirs, ovLog, names>>

\* a variant of the steps after download that reports 100 for a file only
\* when its transfer succeeded
ExChildDownloaded100OnSuccess ==
  /\ pc = "dl_returned"
  /\ ret = "ex_child"
  /\ tracker' = IF incremental
                THEN mark_downloaded(tracker, dl.file, name(dl.file))
                ELSE tracker
  /\ \E outcome \in SaveOutcomes :
       saved' = IF incremental THEN save_tracking_data(saved, tracker', outcome)
                ELSE saved
  /\ fcb' = IF dl.outcome = "success"
            THEN file_progress_callback(fcb, cbSet, dl.file, 100)
            ELSE fcb
  /\ Advance(TRUE, 0)
  /\ pc' = "ex_loop"
  /\ UNCHANGED <<ret, dl, part, final, envvars, appvars, resp, call, dirs, failedDirs, names, xfers>>

\* download returned: mark_downloaded in incremental mode, the callback at
\* 100, files_completed += 1, the progress update
ExChildDownloaded ==
  /\ pc = "dl_returned"
  /\ ret = "ex_child"
  /\ tracker' = IF incremental
                THEN mark_downloaded(tracker, dl.file, name(dl.file))
                ELSE tracker
  /\ \E outcome \in SaveOutcomes :
       saved' = IF incremental THEN save_tracking_data(saved, tracker', outcome)
                ELSE saved
  /\ fcb' = file_progress_callback(fcb, cbSet, dl.file, 100)
  /\ Advance(TRUE, 0)
  /\ pc' = "ex_loop"
  /\ UNCHANGED <<ret, dl, part, final, envvars, appvars, resp, call, dirs, failedDirs, names, xfers>>

\* the recursive call returned (the worker is back at the data of the
\* calling frame): files_completed += 1, the progress update
ExSubReturned ==
  /\ pc = "ex_returned"
  /\ resp' = OkData
  /\ Advance(TRUE, 0)
  /\ pc' = "ex_loop"
  /\ UNCHANGED <<ret, dl, part, final, fcb, envvars, appvars,
                 call, tracker, saved, dirs, failedDirs, names, xfers>>

\* a variant without the try/except around a child: the exception leaves
\* the folder's execute call
ExChildRaisedPropagates ==
  /\ \/ pc = "dl_raised" /\ ret = "ex_child"
     \/ pc = "ex_raised"
  /\ stack' = Pop
  /\ pc' = RaiseTo(Pop)
  /\ UNCHANGED <<ret, dl, part, final, fcb, envvars, appvars, resp,
                 call, tracker, saved, dirs, failedDirs, ovLog, names, xfers>>

\* except Exception as e_inner: files_completed += 1, continue
ExChildRaised ==
  /\ \/ pc = "dl_raised" /\ ret = "ex_child"
     \/ pc = "ex_raised"
  /\ Advance(FALSE, 1)
  /\ pc' = "ex_loop"
  /\ UNCHANGED <<ret, dl, part, final, fcb, envvars, appvars, resp,
                 call, tracker, saved, dirs, failedDirs, names, xfers>>

execute ==
  \/ ExUrl
  \/ ExFetchFail
  \/ ExFolder
  \/ ExFile
  \/ ExFileDone
  \/ ExFileRaised
  \/ ExLoopEnd
  \/ ExChildFolder
  \/ ExChildSkip
  \/ ExChildNoLink
  \/ ExChildDownload
  \/ ExChildDownloaded
  \/ ExSubReturned
  \/ ExChildRaised

(***************************************************************************)
(* The collaborator: cancel_event.set() and the paused flag, at any time   *)
(* while the worker runs.                                                  *)
(***************************************************************************)
Running == pc \notin {"done", "raised", "task_end"} /\ ~(ret = "caller" /\ pc \in {"dl_returned", "dl_raised"})

SetCancel ==
  /\ Running
  /\ ~cancel
  /\ cancel' = TRUE
  /\ dl' = IF pc \in {"dl_loop", "dl_stream", "dl_paused", "dl_write"}
           THEN [dl EXCEPT !.cancelSetAt = dl.written]
           ELSE dl
  /\ UNCHANGED <<pc, ret, part, final, fcb, exvars, fsize, paused, pauses,
                 retry_attempts, cbSet, incremental, links, appvars, resp>>

\* the task of app.py is the caller of this run
IsTask == cbSet = "app" /\ url /= None

\* POST /pause toggles the flag pause_callback reads and shows it as status
TogglePause ==
  /\ pc \in {"dl_stream", "dl_paused", "dl_write"}
  /\ pauses < MaxPauses
  /\ paused' = ~paused
  /\ pauses' = pauses + 1
  /\ dl' = [dl EXCEPT !.latency = 0]
  /\ status' = IF ~IsTask THEN status
               ELSE IF paused' THEN "paused" ELSE "running"
  /\ UNCHANGED <<pc, ret, part, final, fcb, exvars, fsize, cancel,
                 retry_attempts, cbSet, incremental, links, url, resp, th, sess, webvars>>

\* download_task after GoFile().execute(...): "completed" when it returned;
\* when an exception left it, "cancelled" if cancel_event is set, else "error"
TaskEnd ==
  /\ IsTask
  /\ pc \in {"done", "raised"}
  /\ status' = IF pc = "done" THEN "completed"
               ELSE IF cancel THEN "cancelled" ELSE "error"
  /\ pc' = "task_end"
  /\ UNCHANGED <<ret, dl, part, final, fcb, envvars, exvars, url, resp, th, sess, webvars>>

(***************************************************************************)
(* The throttle of download.  Time is counted in units of 1/R seconds,     *)
(* R = throttle_speed * 1024 bytes per second, the time one byte takes at  *)
(* the cap: in these units current_rate > R reads bytes > elapsed and      *)
(* sleep_time is bytes - elapsed, whatever R is.  time.time() is the clock *)
(* of the platform: two readings may be equal.                             *)
(***************************************************************************)
Unthrottled ==
  [now |-> 0, last_check_time |-> 0, bytes_since_last_check |-> 0,
   streamed |-> 0, left |-> 0, phase |-> "off"]

\* bytes_since_last_check = 0; last_check_time = time.time() at the start of
\* download, the origin of the clock; n bytes are to come
NewThrottle(n) ==
  [now |-> 0, last_check_time |-> 0, bytes_since_last_check |-> 0,
   streamed |-> 0, left |-> n, phase |-> "stream"]

\* the if throttle_speed: block, run after a chunk of len bytes was written;
\* time.sleep returns after sleep_time or over units later
throttle(t, len, over) ==
  LET bytes == t.bytes_since_last_check + len
      current_time == t.now
      elapsed == current_time - t.last_check_time
      sleep_time == bytes - elapsed
      counted == [t EXCEPT !.streamed = @ + len, !.left = @ - len]
  IN
  IF elapsed > 0 /\ bytes > elapsed
  THEN [counted EXCEPT !.now = current_time + sleep_time + over,
                       !.last_check_time = current_time + sleep_time + over,
                       !.bytes_since_last_check = 0]
  ELSE [counted EXCEPT !.bytes_since_last_check = bytes]

Min(a, b) == IF a < b THEN a ELSE b

\* the worker waits for the response or for the next chunk
ThWait ==
  /\ th.phase = "stream"
  /\ th.left > 0
  /\ th.now < MaxClock
  /\ th' = [th EXCEPT !.now = @ + 1]
  /\ UNCHANGED <<dlvars, envvars, exvars, url, status, resp, sess, webvars>>

\* iter_content yields a chunk; it is written and the throttle block runs
ThChunk ==
  /\ th.phase = "stream"
  /\ th.left > 0
  /\ \E len \in 1..Min(MaxChunkLen, th.left) : \E over \in {0, 1} :
       th' = throttle(th, len, over)
  /\ UNCHANGED <<dlvars, envvars, exvars, url, status, resp, sess, webvars>>

\* the stream ended: rename, return
ThFinish ==
  /\ th.phase = "stream"
  /\ th.left = 0
  /\ th' = [th EXCEPT !.phase = "done"]
  /\ UNCHANGED <<dlvars, envvars, exvars, url, status, resp, sess, webvars>>

(***************************************************************************)
(* The session of the GoFile singleton.  download_task threads all call    *)
(* GoFile().execute, so token and wt are shared; every execute call with a *)
(* content id, the recursive ones included, begins with update_token() and *)
(* update_wt().  A worker makes up to MaxCalls such calls one after the    *)
(* other; between the test of the field and the arrival of the answer      *)
(* another worker may run.                                                 *)
(***************************************************************************)
Workers == {"w1", "w2"}

\* GoFile.__init__: both fields empty; no worker has called execute
NewSession ==
  [token |-> "", wt |-> "", tokenReqs |-> 0, wtReqs |-> 0,
   w |-> [x \in Workers |-> [pc |-> "idle", calls |-> 0]]]

\* the session where it is not under study
NoSession ==
  [token |-> "", wt |-> "", tokenReqs |-> 0, wtReqs |-> 0,
   w |-> [x \in Workers |-> [pc |-> "off", calls |-> 0]]]

At(x, l) == sess.w[x].pc = l
Goto(x, l) == [sess EXCEPT !.w[x].pc = l]

\* execute is called with a content id (by the task, by main or by the loop
\* of an enclosing call), also after an earlier call has raised
Enter(x) ==
  /\ sess.w[x].pc \in {"idle", "raised"}
  /\ sess.w[x].calls < MaxCalls
  /\ sess' = [sess EXCEPT !.w[x].pc = "update_token", !.w[x].calls = @ + 1]
  /\ UNCHANGED <<dlvars, envvars, exvars, url, status, th, resp, webvars>>

\* what POST /accounts may do: answer status ok with a token, answer another
\* status, or fail in requests.post or in .json()
AccountAnswers == {"ok", "error", "network"}

\* update_token tests the field and sends POST /accounts when it is empty
update_token(x) ==
  /\ At(x, "update_token")
  /\ sess' = IF sess.token = ""
             THEN [Goto(x, "accounts") EXCEPT !.tokenReqs = @ + 1]
             ELSE Goto(x, "update_wt")
  /\ UNCHANGED <<dlvars, envvars, exvars, url, status, th, resp, webvars>>

\* the answer of POST /accounts: the token is stored on status ok, another
\* status is logged; nothing catches an exception of the request
AccountAnswered(x) ==
  /\ At(x, "accounts")
  /\ \E a \in AccountAnswers :
       sess' = CASE a = "ok" -> [Goto(x, "update_wt") EXCEPT !.token = "token"]
                 [] a = "error" -> Goto(x, "update_wt")
                 [] a = "network" -> Goto(x, "raised")
  /\ UNCHANGED <<dlvars, envvars, exvars, url, status, th, resp, webvars>>

\* what GET config.js may do: carry the marker appdata.wt = "...", lack it,
\* or fail
ConfigAnswers == {"ok", "nomarker", "network"}

\* update_wt tests the field and sends GET config.js when it is empty
update_wt(x) ==
  /\ At(x, "update_wt")
  /\ sess' = IF sess.wt = ""
             THEN [Goto(x, "config") EXCEPT !.wtReqs = @ + 1]
             ELSE Goto(x, "fetch")
  /\ UNCHANGED <<dlvars, envvars, exvars, url, status, th, resp, webvars>>

\* the answer of GET config.js inside try/except: wt is stored when the
\* marker is there, anything else is logged
ConfigAnswered(x) ==
  /\ At(x, "config")
  /\ \E a \in ConfigAnswers :
       sess' = IF a = "ok"
               THEN [Goto(x, "fetch") EXCEPT !.wt = "wt"]
               ELSE Goto(x, "fetch")
  /\ UNCHANGED <<dlvars, envvars, exvars, url, status, th, resp, webvars>>

\* the content fetch and the rest of the call, which leave the session alone
Fetch(x) ==
  /\ At(x, "fetch")
  /\ sess' = Goto(x, "idle")
  /\ UNCHANGED <<dlvars, envvars, exvars, url, status, th, resp, webvars>>

(***************************************************************************)
(* Folder names.  A name is a sequence of characters; a word that no rule  *)
(* looks into ("Foo", "NEW FILES in") stands as one element.  "U+2B50" is  *)
(* the star emoji, which lies in the ranges strip_emojis_func removes.     *)
(***************************************************************************)
Emojis == {"U+2B50"}
Whitespace == {" "}

\* the characters pathvalidate's sanitize_filename removes from a name
InvalidChars == {"?", "*", "/"}

\* the letters of an element, case ignored (re.IGNORECASE)
IgnoreCase(a) ==
  IF a \in {"NEW FILES in", "new files in"}
  THEN {"NEW FILES in", "new files in"}
  ELSE {a}

NotEmoji(a) == a \notin Emojis
Valid(a) == a \notin InvalidChars

\* sanitize_filename on a name given by its characters
sanitized(n) == SelectSeq(n, Valid)

RECURSIVE lstrip(_)
lstrip(n) ==
  IF n /= << >> /\ Head(n) \in Whitespace THEN lstrip(Tail(n)) ELSE n

RECURSIVE rstrip(_)
rstrip(n) ==
  IF n /= << >> /\ n[Len(n)] \in Whitespace
  THEN rstrip(SubSeq(n, 1, Len(n) - 1))
  ELSE n

\* str.strip()
strip(n) == rstrip(lstrip(n))

\* ' '.join(result.split()): the words, one space between two of them
RECURSIVE join_split(_)
join_split(n) ==
  IF n = << >> THEN << >>
  ELSE IF Head(n) \in Whitespace
       THEN LET rest == lstrip(n) IN
            IF rest = << >> THEN << >> ELSE <<" ">> \o join_split(rest)
       ELSE <<Head(n)>> \o join_split(Tail(n))

\* emoji_pattern.sub('', text), the spaces cleaned up, .strip()
strip_emojis_func(text) ==
  strip(lstrip(join_split(SelectSeq(text, NotEmoji))))

\* a regular expression anchored at ^: a sequence of elements, each a class
\* of characters taken once ("1"), any number of times ("*") or at least
\* once ("+")
Once(cls) == [cls |-> cls, rep |-> "1"]
ZeroOrMore(cls) == [cls |-> cls, rep |-> "*"]
OneOrMore(cls) == [cls |-> cls, rep |-> "+"]

\* how many characters of n from position j + 1 on belong to cls
RECURSIVE Run(_, _, _)
Run(n, j, cls) ==
  IF j < Len(n) /\ n[j + 1] \in cls THEN 1 + Run(n, j + 1, cls) ELSE 0

\* the number of characters the elements of pat from the i-th on match at
\* position j of n, counted from the start of n; -1 when they do not match.
\* Neighbouring classes are disjoint, so the greedy match is the match.
RECURSIVE Match(_, _, _, _)
Match(pat, n, i, j) ==
  IF i > Len(pat) THEN j
  ELSE LET r == Run(n, j, pat[i].cls) IN
       CASE pat[i].rep = "1" -> IF r >= 1 THEN Match(pat, n, i + 1, j + 1) ELSE -1
         [] pat[i].rep = "*" -> Match(pat, n, i + 1, j + r)
         [] pat[i].rep = "+" -> IF r >= 1 THEN Match(pat, n, i + 1, j + r) ELSE -1

\* re.sub(pattern, '', result, flags=re.IGNORECASE)
re_sub(pat, n) ==
  LET m == Match(pat, n, 1, 0) IN
  IF m < 0 THEN n ELSE SubSeq(n, m + 1, Len(n))

Star == Once({"U+2B50"})
NewFilesIn == Once(IgnoreCase("NEW FILES in"))

\* the five default patterns, in order
DefaultPatterns ==
  <<<<Star, ZeroOrMore(Whitespace), NewFilesIn, OneOrMore(Whitespace)>>,
    <<NewFilesIn, OneOrMore(Whitespace)>>,
    <<Star, ZeroOrMore(Whitespace)>>,
    <<OneOrMore({"*"}), ZeroOrMore(Whitespace), NewFilesIn, OneOrMore(Whitespace)>>,
    <<OneOrMore({"*"}), ZeroOrMore(Whitespace)>>>>

\* folder_pattern: None, or the default of the web app,
\* the pipe-separated list U+2B50 NEW FILES in | NEW FILES in | U+2B50
NoPattern == << >>
AppPattern == <<<<"U+2B50", "NEW FILES in">>, <<"NEW FILES in">>, <<"U+2B50">>>>

\* f'^{escaped}\\s*' of one entry of the list, the spaces already stripped
CustomRegex(entry) ==
  [i \in 1..(Len(entry) + 1) |->
     IF i <= Len(entry) THEN Once(IgnoreCase(entry[i])) ELSE ZeroOrMore(Whitespace)]

\* patterns.insert(0, regex_pattern) for each entry in turn: the last entry
\* comes first
RECURSIVE Patterns(_)
Patterns(custom_list) ==
  IF custom_list = << >> THEN DefaultPatterns
  ELSE <<CustomRegex(custom_list[Len(custom_list)])>>
       \o Patterns(SubSeq(custom_list, 1, Len(custom_list) - 1))

RECURSIVE SubAll(_, _)
SubAll(patterns, result) ==
  IF patterns = << >> THEN result
  ELSE SubAll(Tail(patterns), re_sub(Head(patterns), result))

normalize_folder_name(name_, custom_patterns) ==
  strip(SubAll(Patterns(custom_patterns), name_))

\* the parent directory: directory entry -> "dir" or "file"; NoParent when
\* the parent directory itself does not exist
NoParent == [exists |-> FALSE, entries |-> << >>]
isdir(parent, leaf) ==
  /\ parent.exists
  /\ \/ leaf = << >>                    \* os.path.join(parent_dir, "") is the parent
     \/ leaf \in DOMAIN parent.entries /\ parent.entries[leaf] = "dir"

\* DownloadTracker.find_existing_folder: the set of values it may return,
\* Some(leaf) for the path parent_dir/leaf.  os.listdir gives the entries in
\* an order of its own, so any of several matches may be the first.
find_existing_folder(folder_name, parent, folder_pattern) ==
  IF ~parent.exists THEN {None}
  ELSE LET normalized_target == normalize_folder_name(folder_name, folder_pattern)
           exact == sanitized(folder_name)
           matches == {item \in DOMAIN parent.entries :
                         /\ isdir(parent, item)
                         /\ normalize_folder_name(item, folder_pattern) = normalized_target}
       IN IF isdir(parent, exact) THEN {Some(exact)}
          ELSE IF matches /= {} THEN {Some(item) : item \in matches}
          ELSE {None}

\* content_id[:8]
IdPrefixLen == 8
IdPrefix(content_id) == SubSeq(content_id, 1, Min(IdPrefixLen, Len(content_id)))

\* dirname of the folder branch: the name, emoji-stripped on request, or
\* folder_<content_id[:8]> when stripping leaves nothing
dirname(name_, content_id, strip_emojis) ==
  IF strip_emojis
  THEN LET dirname_clean == strip_emojis_func(name_) IN
       IF dirname_clean = << >> THEN <<"folder_">> \o IdPrefix(content_id)
       ELSE dirname_clean
  ELSE name_

NoFolder ==
  [phase |-> "off", name |-> << >>, content_id |-> << >>,
   strip_emojis |-> FALSE, incremental |-> FALSE, folder_pattern |-> NoPattern,
   parent |-> NoParent, dirname |-> << >>, existing_folder |-> None,
   folder_path |-> None]

\* the folder branch of execute from the name to os.makedirs: dirname, the
\* search for an existing folder in incremental mode, folder_path, and
\* os.makedirs(folder_path, exist_ok=True), which raises when a file of that
\* name is in the way or when the file system refuses
ExFolderPath ==
  /\ fold.phase = "fetched"
  /\ LET d == dirname(fold.name, fold.content_id, fold.strip_emojis) IN
     \E existing_folder \in IF fold.incremental
                            THEN find_existing_folder(d, fold.parent, fold.folder_pattern)
                            ELSE {None} :
       LET leaf == IF existing_folder /= None THEN existing_folder[1]
                   ELSE sanitized(d)
           there == isdir(fold.parent, leaf)
           blocked == leaf \in DOMAIN fold.parent.entries /\ ~there
       IN \E refused \in BOOLEAN :
            fold' = [fold EXCEPT
                       !.dirname = d,
                       !.existing_folder = existing_folder,
                       !.folder_path = Some(leaf),
                       !.phase = IF blocked \/ (refused /\ ~there)
                                 THEN "raised" ELSE "made",
                       !.parent = IF blocked \/ (refused /\ ~there)
                                  THEN @
                                  ELSE IF leaf = << >>
                                  THEN [@ EXCEPT !.exists = TRUE]
                                  ELSE [exists |-> TRUE,
                                        entries |-> [e \in DOMAIN @.entries \cup {leaf} |->
                                                       IF e = leaf THEN "dir" ELSE @.entries[e]]]]
  /\ UNCHANGED <<dlvars, envvars, exvars, url, status, th, sess, resp>>
  /\ UNCHANGED <<download_tasks, thread, request, response, ov, tk>>

(***************************************************************************)
(* The loop of one folder, followed for its counters alone: overall_total  *)
(* children, each counted once it is processed, whatever it is and however *)
(* it ended, and the percents overall_progress_callback is given.          *)
(***************************************************************************)
NoLoop ==
  [phase |-> "off", overall_total |-> 0, files_completed |-> 0,
   percent |-> None, at |-> 0]

\* overall_total = float(len(children)); files_completed = 0.0
NewLoop(n) ==
  [phase |-> "loop", overall_total |-> n, files_completed |-> 0,
   percent |-> None, at |-> 0]

\* overall_progress_callback(percent, folder_name) as the collaborator sees
\* it: the percent of the last call, and how many children were counted then
Passed(o, percent) == [o EXCEPT !.percent = Some(percent), !.at = o.files_completed]

\* one iteration: the child is processed and counted, and the percent is
\* passed on; an exception caught by the loop counts the child and goes on
\* to the next one without the call
CountChild ==
  /\ ov.phase = "loop"
  /\ ov.files_completed < ov.overall_total
  /\ \E caught \in BOOLEAN :
       LET o == [ov EXCEPT !.files_completed = @ + 1] IN
       ov' = IF caught THEN [o EXCEPT !.phase = "skipped"]
             ELSE Passed(o, overall_percent(o.files_completed, o.overall_total))
  /\ UNCHANGED <<dlvars, envvars, exvars, url, status, th, sess, resp>>
  /\ UNCHANGED <<download_tasks, thread, request, response, fold, tk>>

\* the next iteration begins after one that passed no percent
NextChild ==
  /\ ov.phase = "skipped"
  /\ ov' = [ov EXCEPT !.phase = "loop"]
  /\ UNCHANGED <<dlvars, envvars, exvars, url, status, th, sess, resp>>
  /\ UNCHANGED <<download_tasks, thread, request, response, fold, tk>>

\* the loop ends, exhausted or left by break on cancel_event: the folder is
\* marked complete
MarkComplete ==
  /\ ov.phase \in {"loop", "skipped"}
  /\ ov' = [Passed(ov, 100) EXCEPT !.phase = "done"]
  /\ UNCHANGED <<dlvars, envvars, exvars, url, status, th, sess, resp>>
  /\ UNCHANGED <<download_tasks, thread, request, response, fold, tk>>

(***************************************************************************)
(* The tracker of one content id over the execute calls made for it, one   *)
(* after the other.  Of each call the tracker shows what it can see: its   *)
(* construction, and for every file child the question is_downloaded, the  *)
(* transfer and mark_downloaded.  Names are sequences of atoms as above;   *)
(* ids are sequences of characters.                                        *)
(***************************************************************************)
\* the str a sequence of atoms spells
RECURSIVE Text(_)
Text(n) == IF n = << >> THEN "" ELSE Head(n) \o Text(Tail(n))

NoTracker ==
  [phase |-> "off", runs |-> 0, incremental |-> FALSE, strip_emojis |-> FALSE,
   tracker |-> None, tracking_file |-> NoFile, reads |-> 0, at |-> 0,
   did |-> "none", saveRes |-> "none", marks |-> {}, lost |-> FALSE, kept |-> {}]

\* the tracker of the first call: no tracking file yet
NewTracker == [NoTracker EXCEPT !.phase = "idle"]

\* execute is entered: tracker = DownloadTracker(dir, content_id,
\* folder_pattern) in incremental mode, which makes the config directory (an
\* error of os.makedirs leaves execute) and loads the tracking file
TkEnter ==
  /\ tk.phase = "idle"
  /\ tk.runs < MaxRuns
  /\ \E inc \in BOOLEAN, se \in BOOLEAN, made \in BOOLEAN :
       LET t == [tk EXCEPT !.runs = @ + 1, !.incremental = inc,
                           !.strip_emojis = se, !.at = 1,
                           !.did = "none", !.saveRes = "none"]
       IN tk' = IF ~inc THEN [t EXCEPT !.phase = "run"]
                ELSE IF ~made THEN [t EXCEPT !.phase = "idle"]
                ELSE [t EXCEPT !.phase = "run",
                               !.tracker = Some(load_tracking_data(tk.tracking_file)),
                               !.reads = @ + 1]
  /\ UNCHANGED <<dlvars, envvars, exvars, url, status, th, sess, resp>>
  /\ UNCHANGED <<download_tasks, thread, request, response, fold, ov>>

\* filename as the file branch of the loop leaves it for the path and for
\* mark_downloaded: emoji-stripped when asked for, file_<id[:8]><ext> when
\* nothing is left (the extension of a name of emojis alone is empty)
filename_clean(child, strip_emojis) ==
  IF ~strip_emojis THEN child.name
  ELSE IF strip_emojis_func(child.name) = << >>
       THEN <<"file_">> \o IdPrefix(child.id)
       ELSE strip_emojis_func(child.name)

\* the next file child of the loop: skipped when the tracker has (child_id,
\* filename); otherwise transferred, and when download returned (it does
\* after a permanent failure too) marked under the name the stripping left
\* and the tracking file saved
TkChild(listing) ==
  /\ tk.phase = "run"
  /\ tk.at <= Len(listing)
  /\ LET child == listing[tk.at]
         id == Text(child.id)
         t == [tk EXCEPT !.at = @ + 1, !.saveRes = "none"]
     IN
     IF tk.incremental /\ is_downloaded(tk.tracker[1], id, Text(child.name))
     THEN tk' = [t EXCEPT !.did = "skipped"]
     ELSE \E result \in {"success", "failed", "raised"}, outcome \in SaveOutcomes :
            IF result = "raised" \/ ~tk.incremental
            THEN tk' = [t EXCEPT !.did = "transferred"]
            ELSE LET filename == Text(filename_clean(child, tk.strip_emojis))
                     downloaded_files == mark_downloaded(tk.tracker[1], id, filename)
                 IN tk' = [t EXCEPT
                      !.did = "transferred",
                      !.tracker = Some(downloaded_files),
                      !.tracking_file = save_tracking_data(@, downloaded_files, outcome),
                      !.saveRes = outcome,
                      !.marks = @ \cup {TrackerKey(id, filename)},
                      !.lost = @ \/ outcome /= "written",
                      !.kept = IF result = "success"
                              THEN @ \cup {<<id, tk.runs, tk.strip_emojis>>} ELSE @]
  /\ UNCHANGED <<dlvars, envvars, exvars, url, status, th, sess, resp>>
  /\ UNCHANGED <<download_tasks, thread, request, response, fold, ov>>

\* execute returns, its loop run to the end or cut short: the tracker goes
\* with it
TkReturn ==
  /\ tk.phase = "run"
  /\ tk' = [tk EXCEPT !.phase = "idle", !.tracker = None, !.at = 0,
                      !.did = "none", !.saveRes = "none"]
  /\ UNCHANGED <<dlvars, envvars, exvars, url, status, th, sess, resp>>
  /\ UNCHANGED <<download_tasks, thread, request, response, fold, ov>>

(***************************************************************************)
(* The web app.  download_tasks is the registry of app.py; the endpoints   *)
(* handle one request at a time, and each task has a download_task thread  *)
(* that runs beside them.  Of GoFile().execute the thread shows what the   *)
(* app can see: the percents progress_callback is given, and its end by a  *)
(* return or by an exception.                                              *)
(***************************************************************************)
TaskIds == {"t1", "t2"}

NoRequest == << >>
Req(endpoint, task_id) == <<endpoint, task_id>>

NoAnswer == [code |-> 0, body |-> << >>]
Answer(code, body) == [code |-> code, body |-> body]

\* the exceptions that may leave execute, as <<class, str(e)>>
Exceptions ==
  {<<"PermissionError", "denied">>, <<"OSError", "no space">>,
   <<"Exception", "Cancelled">>}

NoThread == [at |-> "none", exc |-> << >>]

\* the web app where it is not under study
NoApp ==
  /\ download_tasks = << >>
  /\ thread = [t \in TaskIds |-> NoThread]
  /\ request = NoRequest
  /\ response = NoAnswer
  /\ fold = NoFolder
  /\ ov = NoLoop
  /\ tk = NoTracker

Registered(t) == t \in DOMAIN download_tasks

\* the entry start_download makes
NewTask ==
  [progress |-> 0, cancel_event |-> FALSE, status |-> "running",
   paused |-> FALSE, error_message |-> << >>]

\* a client sends a request for a task id, registered or not
Send ==
  /\ request = NoRequest
  /\ \/ \E e \in {"start", "pause", "cancel", "remove", "delete", "progress"} :
          \E t \in TaskIds :
            /\ e = "start" => thread[t].at = "none"     \* uuid4: a fresh id
            /\ request' = Req(e, t)
     \/ request' = <<"tasks">>
  /\ UNCHANGED <<download_tasks, thread, response, fold, ov, tk>>
  /\ UNCHANGED <<dlvars, envvars, exvars, url, status, th, sess, resp>>

\* POST /start with a url: the entry is made and the thread started
start_download ==
  /\ request /= NoRequest
  /\ request[1] = "start"
  /\ LET task_id == request[2] IN
       /\ download_tasks' = [t \in DOMAIN download_tasks \cup {task_id} |->
                               IF t = task_id THEN NewTask ELSE download_tasks[t]]
       /\ thread' = [thread EXCEPT ![task_id].at = "start"]
       /\ response' = Answer(202, <<task_id>>)
  /\ request' = NoRequest
  /\ UNCHANGED <<fold, ov, tk>>
  /\ UNCHANGED <<dlvars, envvars, exvars, url, status, th, sess, resp>>

\* a variant of pause that shows every task it touches as paused
pauseAlwaysPaused ==
  /\ request /= NoRequest
  /\ request[1] = "pause"
  /\ LET task_id == request[2] IN
       IF ~Registered(task_id)
       THEN /\ response' = Answer(404, <<"Invalid task id">>)
            /\ UNCHANGED download_tasks
       ELSE LET paused_ == ~download_tasks[task_id].paused
                status_ == "paused"
            IN /\ download_tasks' = [download_tasks EXCEPT
                                       ![task_id].paused = paused_,
                                       ![task_id].status = status_]
               /\ response' = Answer(200, <<task_id, paused_, status_>>)
  /\ request' = NoRequest
  /\ UNCHANGED <<thread, fold, ov, tk>>
  /\ UNCHANGED <<dlvars, envvars, exvars, url, status, th, sess, resp>>

\* POST /pause/<task_id>
pause ==
  /\ request /= NoRequest
  /\ request[1] = "pause"
  /\ LET task_id == request[2] IN
       IF ~Registered(task_id)
       THEN /\ response' = Answer(404, <<"Invalid task id">>)
            /\ UNCHANGED download_tasks
       ELSE LET paused_ == ~download_tasks[task_id].paused
                status_ == IF paused_ THEN "paused" ELSE "running"
            IN /\ download_tasks' = [download_tasks EXCEPT
                                       ![task_id].paused = paused_,
                                       ![task_id].status = status_]
               /\ response' = Answer(200, <<task_id, paused_, status_>>)
  /\ request' = NoRequest
  /\ UNCHANGED <<thread, fold, ov, tk>>
  /\ UNCHANGED <<dlvars, envvars, exvars, url, status, th, sess, resp>>

\* POST /cancel/<task_id>
cancel_ ==
  /\ request /= NoRequest
  /\ request[1] = "cancel"
  /\ LET task_id == request[2] IN
       IF ~Registered(task_id)
       THEN /\ response' = Answer(404, <<"Invalid task id">>)
            /\ UNCHANGED download_tasks
       ELSE /\ download_tasks' = [download_tasks EXCEPT ![task_id].cancel_event = TRUE]
            /\ response' = Answer(200, <<task_id, "cancelled">>)
  /\ request' = NoRequest
  /\ UNCHANGED <<thread, fold, ov, tk>>
  /\ UNCHANGED <<dlvars, envvars, exvars, url, status, th, sess, resp>>

\* POST /remove/<task_id>
remove ==
  /\ request /= NoRequest
  /\ request[1] = "remove"
  /\ LET task_id == request[2] IN
       IF ~Registered(task_id)
       THEN /\ response' = Answer(404, <<"Invalid task id">>)
            /\ UNCHANGED download_tasks
       ELSE /\ download_tasks' = [t \in DOMAIN download_tasks \ {task_id} |->
                                    download_tasks[t]]
            /\ response' = Answer(200, <<task_id, "removed">>)
  /\ request' = NoRequest
  /\ UNCHANGED <<thread, fold, ov, tk>>
  /\ UNCHANGED <<dlvars, envvars, exvars, url, status, th, sess, resp>>

\* the outcomes of the removal of out_path: the path is not there, it is
\* removed, it disappears in between (FileNotFoundError), another exception
DeleteOutcomes == {"missing", "deleted", "vanished", "failed"}

\* POST /delete/<task_id>: the files are removed and the entry with them; an
\* exception other than FileNotFoundError answers 500 and keeps the entry
delete ==
  /\ request /= NoRequest
  /\ request[1] = "delete"
  /\ LET task_id == request[2] IN
       IF ~Registered(task_id)
       THEN /\ response' = Answer(404, <<"Invalid task id">>)
            /\ UNCHANGED download_tasks
       ELSE \E outcome \in DeleteOutcomes :
              IF outcome = "failed"
              THEN /\ response' = Answer(500, <<"no space">>)
                   /\ UNCHANGED download_tasks
              ELSE /\ download_tasks' = [t \in DOMAIN download_tasks \ {task_id} |->
                                           download_tasks[t]]
                   /\ response' = Answer(200, <<task_id, outcome>>)
  /\ request' = NoRequest
  /\ UNCHANGED <<thread, fold, ov, tk>>
  /\ UNCHANGED <<dlvars, envvars, exvars, url, status, th, sess, resp>>

\* GET /progress/<task_id>
progress ==
  /\ request /= NoRequest
  /\ request[1] = "progress"
  /\ LET task_id == request[2] IN
       response' = IF ~Registered(task_id)
                   THEN Answer(404, <<"Invalid task id">>)
                   ELSE Answer(200, <<task_id, download_tasks[task_id].progress>>)
  /\ request' = NoRequest
  /\ UNCHANGED <<download_tasks, thread, fold, ov, tk>>
  /\ UNCHANGED <<dlvars, envvars, exvars, url, status, th, sess, resp>>

\* GET /tasks: every entry as it is, here with its status and paused flag
tasks ==
  /\ request /= NoRequest
  /\ request[1] = "tasks"
  /\ response' = Answer(200, [t \in DOMAIN download_tasks |->
                                <<download_tasks[t].status, download_tasks[t].paused>>])
  /\ request' = NoRequest
  /\ UNCHANGED <<download_tasks, thread, fold, ov, tk>>
  /\ UNCHANGED <<dlvars, envvars, exvars, url, status, th, sess, resp>>

\* download_task up to the call of execute: the entry is read, and the
\* output directory is made and probed.  A directory that cannot be made or
\* written ends the task with status "error"; an entry that is gone raises
\* KeyError out of the thread.
TaskStart(task_id) ==
  /\ thread[task_id].at = "start"
  /\ IF ~Registered(task_id)
     THEN /\ thread' = [thread EXCEPT ![task_id].at = "died"]
          /\ UNCHANGED download_tasks
     ELSE \E writable \in BOOLEAN :
            IF writable
            THEN /\ thread' = [thread EXCEPT ![task_id].at = "execute"]
                 /\ UNCHANGED download_tasks
            ELSE /\ thread' = [thread EXCEPT ![task_id].at = "refused"]
                 /\ download_tasks' = [download_tasks EXCEPT
                      ![task_id].error_message =
                          <<"Output directory is not writable: ", "denied", ". Check Docker volume permissions">>,
                      ![task_id].status = "error"]
  /\ UNCHANGED <<request, response, fold, ov, tk>>
  /\ UNCHANGED <<dlvars, envvars, exvars, url, status, th, sess, resp>>

\* the percents execute passes to progress_callback
Percents == {0, 50}

\* progress_callback(percentage), called by download inside its try block:
\* the KeyError of an entry that is gone is caught there
progress_callback(task_id) ==
  /\ thread[task_id].at = "execute"
  /\ Registered(task_id)
  /\ \E percent \in Percents :
       download_tasks' = [download_tasks EXCEPT ![task_id].progress = percent]
  /\ UNCHANGED <<thread, request, response, fold, ov, tk>>
  /\ UNCHANGED <<dlvars, envvars, exvars, url, status, th, sess, resp>>

\* pause_callback() polled by the chunk loop of download returns false: the
\* chunk that was read is written next.  While the flag is true the wait loop
\* polls again.
pause_callback(task_id) ==
  /\ thread[task_id].at = "execute"
  /\ Registered(task_id)
  /\ ~download_tasks[task_id].paused
  /\ thread' = [thread EXCEPT ![task_id].at = "write"]
  /\ UNCHANGED <<download_tasks, request, response, fold, ov, tk>>
  /\ UNCHANGED <<dlvars, envvars, exvars, url, status, th, sess, resp>>

\* f.write(chunk) of the chunk loop: the file on disk grows, whatever has
\* become of the entry since the poll
write(task_id) ==
  /\ thread[task_id].at = "write"
  /\ thread' = [thread EXCEPT ![task_id].at = "execute"]
  /\ UNCHANGED <<download_tasks, request, response, fold, ov, tk>>
  /\ UNCHANGED <<dlvars, envvars, exvars, url, status, th, sess, resp>>

\* error_msg of the three except clauses, as the parts it is formatted of
error_msg(exc) ==
  CASE exc[1] = "PermissionError" ->
         <<"Permission denied: ", exc[2], ". Check that the output directory has correct permissions">>
    [] exc[1] = "OSError" ->
         <<"Filesystem error: ", exc[2], ". This may be a Docker volume mount issue or disk space problem.">>
    [] OTHER -> <<exc[2]>>

\* a variant of the end of download_task that leaves progress as it is
TaskEndsProgressKept(task_id, exc) ==
  /\ thread[task_id].at = "execute"
  /\ IF ~Registered(task_id)
     THEN /\ thread' = [thread EXCEPT ![task_id] = [at |-> "died", exc |-> exc]]
          /\ UNCHANGED download_tasks
     ELSE /\ thread' = [thread EXCEPT ![task_id] = [at |-> "end", exc |-> exc]]
          /\ download_tasks' =
               IF exc = << >>
               THEN [download_tasks EXCEPT ![task_id].status = "completed"]
               ELSE [download_tasks EXCEPT
                       ![task_id].error_message = error_msg(exc),
                       ![task_id].status = IF download_tasks[task_id].cancel_event
                                           THEN "cancelled" ELSE "error"]
  /\ UNCHANGED <<request, response, fold, ov, tk>>
  /\ UNCHANGED <<dlvars, envvars, exvars, url, status, th, sess, resp>>

\* download_task from the return of execute (exc = << >>) or from the
\* exception that left it: status, error_message, progress = 100.  With the
\* entry gone the first assignment raises KeyError, in the except clause
\* too, and the thread ends by it.
TaskEnds(task_id, exc) ==
  /\ thread[task_id].at = "execute"
  /\ IF ~Registered(task_id)
     THEN /\ thread' = [thread EXCEPT ![task_id] = [at |-> "died", exc |-> exc]]
          /\ UNCHANGED download_tasks
     ELSE /\ thread' = [thread EXCEPT ![task_id] = [at |-> "end", exc |-> exc]]
          /\ download_tasks' =
               IF exc = << >>
               THEN [download_tasks EXCEPT ![task_id].status = "completed",
                                           ![task_id].progress = 100]
               ELSE [download_tasks EXCEPT
                       ![task_id].error_message = error_msg(exc),
                       ![task_id].status = IF download_tasks[task_id].cancel_event
                                           THEN "cancelled" ELSE "error",
                       ![task_id].progress = 100]
  /\ UNCHANGED <<request, response, fold, ov, tk>>
  /\ UNCHANGED <<dlvars, envvars, exvars, url, status, th, sess, resp>>

download_task ==
  \E task_id \in TaskIds :
    \/ TaskStart(task_id)
    \/ pause_callback(task_id)
    \/ write(task_id)
    \/ progress_callback(task_id)
    \/ \E exc \in {<< >>} \cup Exceptions : TaskEnds(task_id, exc)

(***************************************************************************)
(* download called on its own, as the tests call it: any retry budget, any *)
(* callback set, a remote file of 1..MaxChunks chunks and a partial file   *)
(* of an earlier run that is absent or holds a prefix of it.               *)
(***************************************************************************)
DirectCall ==
  /\ pc = "dl_loop"
  /\ ret = "caller"
  /\ dl = NewDownload("f0")
  /\ \E n \in 1..MaxChunks :
       /\ fsize = [f \in Files |-> n]
       /\ \E p \in {Absent} \cup {[exists |-> TRUE, size |-> k] : k \in 0..(n - 1)} :
            part = [f \in Files |-> IF f = "f0" THEN p ELSE Absent]
  /\ final = [f \in Files |-> FALSE]
  /\ cancel = FALSE
  /\ paused = FALSE
  /\ pauses = 0
  /\ retry_attempts \in 0..MaxRetry
  /\ cbSet \in CallbackSets
  /\ fcb = [f \in Files |-> NeverCalled]
  /\ call = "f0"
  /\ stack = << >>
  /\ incremental = FALSE
  /\ tracker = {}
  /\ saved = NoFile
  /\ links = Files
  /\ dirs = {}
  /\ failedDirs = {}
  /\ ovLog = [c \in Folders |-> << >>]
  /\ names = << >>
  /\ xfers = [f \in Files |-> 0]
  /\ url = None
  /\ resp = NotFetched
  /\ status = "running"

InitDownload == DirectCall /\ th = Unthrottled /\ sess = NoSession /\ NoApp

NextDownload == download \/ SetCancel \/ TogglePause

SpecDownload == InitDownload /\ [][NextDownload]_vars

(***************************************************************************)
(* One throttled download without failures: a stream of 1..MaxBytes bytes  *)
(* in chunks of 1..MaxChunkLen bytes, arriving at any times.               *)
(***************************************************************************)
InitThrottle ==
  /\ DirectCall
  /\ retry_attempts = 0
  /\ cbSet = "none"
  /\ fsize["f0"] = MaxChunks
  /\ ~part["f0"].exists
  /\ \E n \in 1..MaxBytes : th = NewThrottle(n)
  /\ sess = NoSession
  /\ NoApp

NextThrottle == ThWait \/ ThChunk \/ ThFinish

SpecThrottle == InitThrottle /\ [][NextThrottle]_vars

\* the session alone: no download and no walk is under way
NoCall ==
  /\ DirectCall
  /\ retry_attempts = 0
  /\ cbSet = "none"
  /\ fsize["f0"] = 1
  /\ ~part["f0"].exists
  /\ th = Unthrottled

InitSession == NoCall /\ sess = NewSession /\ NoApp

NextSession ==
  \E x \in Workers :
    \/ Enter(x)
    \/ update_token(x)
    \/ AccountAnswered(x)
    \/ update_wt(x)
    \/ ConfigAnswered(x)
    \/ Fetch(x)

SpecSession == InitSession /\ [][NextSession]_vars

\* the web app alone, with an empty registry
InitApp ==
  /\ NoCall
  /\ sess = NoSession
  /\ download_tasks = << >>
  /\ thread = [t \in TaskIds |-> NoThread]
  /\ request = NoRequest
  /\ response = NoAnswer
  /\ fold = NoFolder
  /\ ov = NoLoop
  /\ tk = NoTracker

NextApp ==
  \/ Send
  \/ start_download
  \/ pause
  \/ cancel_
  \/ remove
  \/ delete
  \/ progress
  \/ tasks
  \/ download_task

SpecApp == InitApp /\ [][NextApp]_vars

(***************************************************************************)
(* One folder node whose content was fetched, of any of the names below,   *)
(* met with any content of the parent directory.                           *)
(***************************************************************************)
FolderNames ==
  {<<"Foo">>, <<"Bar">>, <<"foo">>,
   <<"NEW FILES in", " ", "Foo">>,
   <<"new files in", " ", "Foo">>,
   <<"U+2B50", "NEW FILES in", " ", "Foo">>,
   <<"U+2B50", " ", "Foo">>,
   <<"*", "*", "Foo">>,
   <<"U+2B50", "U+2B50", "U+2B50">>,
   <<"U+2B50", " ", "U+2B50">>,
   <<"?", "?", "?">>}

EntryNames ==
  {<<"Foo">>, <<"Bar">>, <<"U+2B50", "NEW FILES in", " ", "Foo">>}

FolderIds ==
  {<<"r", "o", "o", "t", "1", "2", "3", "4", "5", "6">>, <<"a", "b", "c">>}

Parents ==
  {NoParent} \cup
  {[exists |-> TRUE, entries |-> e] :
     e \in UNION {[D -> {"dir", "file"}] : D \in SUBSET EntryNames}}

InitFolder ==
  /\ NoCall
  /\ sess = NoSession
  /\ download_tasks = << >>
  /\ thread = [t \in TaskIds |-> NoThread]
  /\ request = NoRequest
  /\ response = NoAnswer
  /\ ov = NoLoop
  /\ tk = NoTracker
  /\ \E n \in FolderNames, c \in FolderIds, p \in Parents,
        se \in BOOLEAN, inc \in BOOLEAN, fp \in {NoPattern, AppPattern} :
       fold = [NoFolder EXCEPT !.phase = "fetched", !.name = n, !.content_id = c,
                               !.strip_emojis = se, !.incremental = inc,
                               !.folder_pattern = fp, !.parent = p]

NextFolder == ExFolderPath

SpecFolder == InitFolder /\ [][NextFolder]_vars

(***************************************************************************)
(* The loop of a folder of 1..MaxChildren children, a callback given.      *)
(***************************************************************************)
InitLoop ==
  /\ NoCall
  /\ sess = NoSession
  /\ download_tasks = << >>
  /\ thread = [t \in TaskIds |-> NoThread]
  /\ request = NoRequest
  /\ response = NoAnswer
  /\ fold = NoFolder
  /\ tk = NoTracker
  /\ \E n \in 1..MaxChildren : ov = NewLoop(n)

NextLoop == CountChild \/ NextChild \/ MarkComplete

SpecLoop == InitLoop /\ [][NextLoop]_vars

(***************************************************************************)
(* Up to MaxRuns execute calls for one content id whose listing holds the  *)
(* three files below, each call with its own settings.                     *)
(***************************************************************************)
TrackedFiles ==
  <<[id |-> <<"i", "d", "1">>, name |-> <<"a.txt">>],
    [id |-> <<"i", "d", "2">>, name |-> <<"U+2B50", " ", "b.txt">>],
    [id |-> <<"i", "d", "3">>, name |-> <<"U+2B50", "U+2B50">>]>>

InitTracker ==
  /\ NoCall
  /\ sess = NoSession
  /\ download_tasks = << >>
  /\ thread = [t \in TaskIds |-> NoThread]
  /\ request = NoRequest
  /\ response = NoAnswer
  /\ fold = NoFolder
  /\ ov = NoLoop
  /\ tk = NewTracker

NextTracker ==
  \/ TkEnter
  \/ TkChild(TrackedFiles)
  \/ TkReturn

SpecTracker == InitTracker /\ [][NextTracker]_vars

(***************************************************************************)
(* execute called with a content id, as the tests call it (a folder of one *)
(* file, an empty folder, a single file, an id the service does not know), *)
(* or with a URL, as download_task and main call it: the URL of the folder *)
(* tree, the same with a trailing slash, and two URLs that do not start    *)
(* with https://gofile.io/d/.  Files have one chunk or MaxChunks chunks,   *)
(* the retry budget is 0 or MaxRetry (the values between are those of      *)
(* SpecDownload); in incremental mode the tracking file of an earlier run  *)
(* may already list files, which are then on disk.                         *)
(***************************************************************************)
ContentIds == {"sub", "empty", "f0", "missing"}

Urls ==
  {<<"https:", "", "gofile.io", "d", "root">>,
   <<"https:", "", "gofile.io", "d", "root", "">>,
   <<"http:", "", "gofile.io", "d", "root">>,
   <<"https:", "", "example.com", "d", "root">>}

Init ==
  /\ \/ /\ url = None
        /\ call \in ContentIds
        /\ pc = "ex_call"
     \/ /\ url \in Urls
        /\ call = ""
        /\ pc = "ex_url"
  /\ resp = NotFetched
  /\ status = "running"
  /\ th = Unthrottled
  /\ sess = NoSession
  /\ NoApp
  /\ ret = "caller"
  /\ dl = NewDownload("f0")
  /\ stack = << >>
  /\ \E n \in {1, MaxChunks} : fsize = [f \in Files |-> n]
  /\ part = [f \in Files |-> Absent]
  /\ cancel = FALSE
  /\ paused = FALSE
  /\ pauses = 0
  /\ retry_attempts \in {0, MaxRetry}
  /\ cbSet \in CallbackSets
  /\ fcb = [f \in Files |-> NeverCalled]
  /\ incremental \in BOOLEAN
  /\ tracker = {}
  /\ saved \in IF incremental
               THEN {NoFile} \cup
                    {Written(S) : S \in SUBSET {TrackerKey(f, name(f)) : f \in {"f1", "f3"}} \ {{}}}
               ELSE {NoFile}
  /\ final = [f \in Files |-> TrackerKey(f, name(f)) \in saved.files]
  /\ links \in {Files, Files \ {"f2"}}
  /\ dirs = {}
  /\ failedDirs = {}
  /\ ovLog = [c \in Folders |-> << >>]
  /\ names = << >>
  /\ xfers = [f \in Files |-> 0]

Next == execute \/ download \/ SetCancel \/ TogglePause \/ TaskEnd

Spec == Init /\ [][Next]_vars

\* the worker thread of a run: threading.Thread(target=download_task) keeps
\* being scheduled while it has a step to take; the collaborator (requests
\* that set cancel or flip the paused flag) is under no obligation
Worker == execute \/ download \/ TaskEnd

\* the runs of the library without callbacks and those of the web app, which
\* find no tracking file of an earlier run or one that holds the first file
\* of the listing
InitFair ==
  /\ Init
  /\ cbSet \in {"none", "app"}
  /\ saved.files \subseteq {TrackerKey("f1", name("f1"))}

SpecFair == InitFair /\ [][Next]_vars /\ WF_vars(Worker)

(***************************************************************************)
(* Properties of download                                                  *)
(***************************************************************************)
\* the download call has ended: it returned or it raised
Ended == dl.outcome /= "running"

\* C1: a transfer cancelled mid-stream (Cancelled raised after a chunk was
\* written and before the last one) ends with the .part file on disk,
\* smaller than the total, whatever the retry budget.
C1_CancelKeepsPart ==
  (Ended /\ 1 <= dl.cancelSetAt /\ 1 <= dl.cancelAt /\ dl.cancelAt < fsize[dl.file])
    => /\ part[dl.file].exists
       /\ part[dl.file].size < fsize[dl.file]

C3_RetryDiscipline ==
  /\ dl.requests <= retry_attempts + 1
  /\ dl.attempts <= retry_attempts
       => /\ dl.outcome \in {"running", "success"}
          /\ dl.sleeps = dl.attempts
          /\ cbSet /= "none" => dl.nRetry = dl.attempts
  /\ dl.outcome = "success"
       => /\ dl.requests = dl.attempts + 1
          /\ dl.sleeps = dl.attempts
          /\ final[dl.file]

\* C4: every request carries as its Range offset the size the .part file has
\* at that moment (0 when absent), and after every chunk write the
\* downloaded counter equals the size of the .part file.
C4_ResumeOffset ==
  [][/\ dl'.requests = dl.requests + 1
         => dl'.range = (IF part[dl.file].exists THEN part[dl.file].size ELSE 0)
     /\ (dl'.written = dl.written + 1 /\ part'[dl.file].exists)
         => dl'.downloaded = part'[dl.file].size]_vars

\* a retry resumed behind the chunk an earlier attempt of the call wrote
C4_Witness ==
  /\ pc = "dl_stream"
  /\ dl.attempts >= 1
  /\ dl.range >= 1
  /\ dl.written >= 1
  /\ dl.downloaded = dl.range

Marked(f) == (f \o ":" \o name(f)) \in tracker

\* execute has left the folder: its directory was created and no frame of
\* the recursion belongs to it any more
Finished(cid) ==
  /\ cid \in dirs
  /\ \A i \in 1..Len(stack) : stack[i].cid /= cid

\* the child the innermost loop is about to process is a file the tracker has
AtMarkedChild ==
  /\ pc = "ex_loop"
  /\ Top.idx <= Len(children(Top.cid))
  /\ ~cancel
  /\ children(Top.cid)[Top.idx] \in Files
  /\ incremental
  /\ Marked(children(Top.cid)[Top.idx])

\* C6: in incremental mode a file child whose pair is in the tracker is
\* never handed to download; the step that processes it delivers 100 for it
\* and counts it completed.
C6_MarkedIsSkipped ==
  [][/\ \A f \in Files :
          xfers'[f] > xfers[f] => ~(incremental /\ stack /= << >> /\ Marked(f))
     /\ (AtMarkedChild /\ stack' /= stack)
          => /\ xfers' = xfers
             /\ pc' = "ex_loop"
             /\ Len(stack') = Len(stack)
             /\ stack'[Len(stack)].idx = Top.idx + 1
             /\ stack'[Len(stack)].files_completed = Top.files_completed + 1
             /\ cbSet /= "none"
                  => fcb'[children(Top.cid)[Top.idx]] = [called |-> TRUE, last |-> 100]]_vars

\* the first child of the root folder was skipped and the walk went on
C6_Witness ==
  /\ incremental
  /\ Marked("f1")
  /\ xfers["f1"] = 0
  /\ fcb["f1"] = [called |-> TRUE, last |-> 100]
  /\ Len(stack) = 1
  /\ stack[1].idx = 2
  /\ stack[1].files_completed = 1

\* C7: every file marked downloaded in the tracker has its final-named file
\* on disk (a file is marked only when its transfer succeeded).
C7_MarkedOnlyOnSuccess ==
  \A f \in Files : Marked(f) => final[f]

\* C8: an exception that reaches a folder's child loop (from download or from
\* the recursive call) is caught there: the child is counted, the loop moves
\* to the next child and the frame stays; a folder's loop ends only when its
\* children are exhausted or on cancellation; in every frame the children
\* counted are the children passed; no exception of a child leaves execute.
C8_ChildErrorContained ==
  [][/\ ((pc = "ex_raised" \/ (pc = "dl_raised" /\ ret = "ex_child")) /\ pc' /= pc)
          => /\ pc' = "ex_loop"
             /\ Len(stack') = Len(stack)
             /\ stack'[Len(stack)].cid = Top.cid
             /\ stack'[Len(stack)].idx = Top.idx + 1
             /\ stack'[Len(stack)].files_completed = Top.files_completed + 1
     /\ Len(stack') < Len(stack)
          => (cancel \/ Top.idx > Len(children(Top.cid)))
     /\ \A i \in 1..Len(stack') : stack'[i].files_completed = stack'[i].idx - 1
     /\ (pc' = "raised" /\ pc /= "raised") => stack = << >>]_vars

\* the first child of the root folder raised and the last one was transferred
C8_Witness ==
  /\ Len(stack) = 1
  /\ stack[1].errors >= 1
  /\ xfers["f1"] = 1
  /\ ~final["f1"]
  /\ final["f2"]
  /\ stack[1].idx = 4
  /\ ~cancel

\* C9: once execute has left a folder with N children (no cancellation), the
\* overall-progress callback has been invoked at least N + 1 times for it.
C9_OverallCalls ==
  \A cid \in Folders :
    (Finished(cid) /\ cbSet /= "none" /\ ~cancel)
      => Len(ovLog[cid]) >= Len(children(cid)) + 1

\* C10: once execute has left a folder whose directory was created, the last
\* overall-progress invocation made for it reported 100.
C10_LastOverallIs100 ==
  \A cid \in Folders :
    (Finished(cid) /\ cbSet /= "none")
      => /\ ovLog[cid] /= << >>
         /\ ovLog[cid][Len(ovLog[cid])] = 100

\* a cancellation cut the root folder's loop short before its last child
C10_Witness ==
  /\ Finished("root")
  /\ cancel
  /\ cbSet /= "none"
  /\ "f2" \in links
  /\ xfers["f2"] = 0
  /\ Len(ovLog["root"]) = 2
  /\ ovLog["root"][2] = 100

(***************************************************************************)
(* Properties of the content fetch, the URL entry and the task status      *)
(***************************************************************************)
\* the answer does not let execute go on
Failed(data) == data.status /= "ok" \/ data.passwordStatus /= "passwordOk"

\* C11: the step in which the content endpoint answers with a status other
\* than ok or a password status other than passwordOk (or does not answer)
\* makes no transfer call, creates no directory, invokes no name, overall
\* or per-file callback and touches no file; the call for that node returns.
C11_FailedFetchDoesNothing ==
  [][(pc = "ex_call" /\ resp' /= resp /\ Failed(resp'))
       => /\ xfers' = xfers
          /\ dirs' = dirs
          /\ names' = names
          /\ ovLog' = ovLog
          /\ fcb' = fcb
          /\ part' = part
          /\ final' = final
          /\ stack' = stack
          /\ pc' = ReturnTo(stack)]_vars

\* the subfolder of the tree asked for a password: nothing was done for it
C11_Witness ==
  /\ pc = "ex_returned"
  /\ call = "sub"
  /\ resp.passwordStatus = "passwordRequired"
  /\ "sub" \notin dirs
  /\ ovLog["sub"] = << >>
  /\ xfers["f3"] = 0
  /\ xfers["f1"] = 1

\* C12: when the content fetch of the outermost call failed, execute did not
\* return normally (it raised), and a task is not shown as completed.
C12_FailedFetchIsRaised ==
  (TopLevel /\ resp \in FetchFailures)
    => /\ pc /= "done"
       /\ pc = "task_end" => status /= "completed"

\* C13: a task whose cancel signal was set during a file transfer (after a
\* chunk of it was written, and seen by the check that follows a write) ends
\* with the status cancelled.
C13_CancelledTaskShowsIt ==
  (pc = "task_end" /\ 1 <= dl.cancelSetAt /\ 1 <= dl.cancelAt)
    => status = "cancelled"

\* C14: a URL that does not start with https://gofile.io/d/ makes execute
\* raise, the task ends with the status error, and nothing was fetched,
\* created or transferred.
C14_InvalidUrlIsFatal ==
  (url /= None /\ ~startswith(url) /\ pc /= "ex_url")
    => /\ pc \in {"raised", "task_end"}
       /\ pc = "task_end" => status = "error"
       /\ resp = NotFetched
       /\ dirs = {}
       /\ \A f \in Files : xfers[f] = 0

\* C15: the error os.makedirs raised for a subfolder keeps propagating: the
\* step that follows it leaves the calling frame with the exception, up to
\* the caller of execute.
C15_MakedirsErrorPropagates ==
  [][(pc = "ex_raised" /\ pc' /= pc)
       => /\ stack' = Pop
          /\ pc' = RaiseTo(Pop)]_vars

(***************************************************************************)
(* Properties of the walk                                                  *)
(***************************************************************************)
\* the worker has left the outermost execute call
Left == pc \in {"done", "raised", "task_end"}

\* the content id the outermost call was entered with or resolved its URL to
\* (a call entered by content id here never descends, so call keeps it)
TopId == IF url /= None THEN LastSegment(url) ELSE call

\* the file leaves of the tree under a node
RECURSIVE Leaves(_)
Leaves(cid) ==
  IF cid \in Files THEN {cid}
  ELSE UNION {Leaves(children(cid)[i]) : i \in 1..Len(children(cid))}

\* the content fetch of the outermost call was made and succeeded, and so
\* did the fetch of every subfolder of a folder whose loop was run
EveryFetchOk ==
  /\ resp = OkData
  /\ \A c \in dirs : \A i \in 1..Len(children(c)) :
       children(c)[i] \in Folders => children(c)[i] \in dirs \cup failedDirs

C17_OneTransferPerLeaf ==
  (Left /\ ~cancel /\ ~incremental /\ EveryFetchOk)
    => \A f \in Files :
         xfers[f] = IF f \in Leaves(TopId) /\ f \in links THEN 1 ELSE 0

\* C17 amended: the same when, in addition, every directory was created.
C17_OneTransferPerLeafOfCreatedTree ==
  (Left /\ ~cancel /\ ~incremental /\ EveryFetchOk /\ failedDirs = {})
    => \A f \in Files :
         xfers[f] = IF f \in Leaves(TopId) /\ f \in links THEN 1 ELSE 0

\* the tree was walked to its end: two transfers for the files with a link,
\* one of them in the subfolder, none for the file without a link
C17_Witness ==
  /\ pc = "done"
  /\ ~cancel /\ ~incremental /\ EveryFetchOk /\ failedDirs = {}
  /\ TopId = "root"
  /\ "f2" \notin links
  /\ xfers = [f \in Files |-> IF f \in {"f1", "f3"} THEN 1 ELSE 0]

\* C18: a chunk is written only by the write step, which is entered only on
\* a poll of the pause predicate that returned false; while the worker
\* waits with a chunk in hand and the predicate is true the .part files do
\* not change; at most one chunk is written after the flag turned true.
C18_PauseBeforeWrite ==
  [][/\ dl'.written > dl.written => pc = "dl_write"
     /\ (pc' = "dl_write" /\ pc /= "dl_write") => ~paused
     /\ (pc = "dl_paused" /\ paused) => (part' = part /\ dl'.written = dl.written)
     /\ dl'.latency <= 1]_vars

\* the pause request came between the poll and the write: that chunk was
\* written, and the next one waits
C18_Witness ==
  /\ pc = "dl_paused"
  /\ paused
  /\ dl.latency = 1
  /\ dl.written >= 1
  /\ part[dl.file].size < fsize[dl.file]

\* C19: with the cancel signal set, the loop of a folder is left at the top
\* of its next iteration without processing the child; in no frame is a
\* transfer started or a subfolder entered any more.
C19_NoChildAfterCancel ==
  [][/\ (cancel /\ pc = "ex_loop")
          => /\ stack' = Pop
             /\ pc' = ReturnTo(Pop)
             /\ xfers' = xfers
             /\ fcb' = fcb
             /\ dirs' = dirs
             /\ call' = call
     /\ (cancel /\ stack /= << >>)
          => /\ xfers' = xfers
             /\ pc' = "ex_call" => pc = "ex_call"]_vars

\* cancelled during the transfer in the subfolder: both loops were left and
\* the last file of the top folder, which has a link, was never started
C19_Witness ==
  /\ pc = "done"
  /\ cancel
  /\ 1 <= dl.cancelSetAt
  /\ dl.file = "f3"
  /\ xfers["f1"] = 1
  /\ xfers["f3"] = 1
  /\ "f2" \in links
  /\ xfers["f2"] = 0

(***************************************************************************)
(* Properties of the throttle                                              *)
(***************************************************************************)
\* C20: a throttled download that streamed N bytes under the cap R ends no
\* earlier than N/R seconds after its start (N units of 1/R seconds),
\* whatever the chunking and the arrival times.
C20_ThrottleLowerBound ==
  th.phase = "done" => th.now >= th.streamed


(***************************************************************************)
(* Properties of the session                                               *)
(***************************************************************************)
\* C21: over all execute calls of all workers, POST /accounts is sent at
\* most once and GET config.js is sent at most once
C21_RequestsAtMostOnce ==
  /\ sess.tokenReqs <= 1
  /\ sess.wtReqs <= 1

\* C22: no failure to obtain the token or wt raises out of execute: no
\* worker's call ends by an exception of update_token or update_wt
C22_TokenFailureNotFatal ==
  \A x \in Workers : ~At(x, "raised")

(***************************************************************************)
(* Properties of the percent values                                        *)
(***************************************************************************)
\* C23: when the total size is unknown (no Content-Length, no partial file:
\* total_size = 0) the write of a chunk does not fail: unless cancelled, the
\* attempt goes on to the next chunk and the callback is given 0
C23_UnknownTotalCompletes ==
  [][(/\ pc = "dl_write"
      /\ dl.total_size = 0
      /\ ~cancel
      /\ dl'.written > dl.written)
     => /\ pc' = "dl_stream"
        /\ dl'.attempts = dl.attempts
        /\ cbSet /= "none" => fcb'[dl.file] = [called |-> TRUE, last |-> 0]]_vars

\* C24: every percent the per-file callback is given is in 0..100 or is -1
\* or -2; after a -1 the retry loop goes on to another attempt, and a -2 is
\* given only by the call that has failed for good
C24_PercentInRange ==
  \A f \in Files :
    fcb[f].called =>
      /\ fcb[f].last \in (0..100) \cup {-1, -2}
      /\ fcb[f].last = -1 =>
           pc = "dl_loop" /\ dl.file = f /\ dl.attempts <= retry_attempts
      /\ fcb[f].last = -2 => dl.file = f /\ dl.outcome = "failed"

(***************************************************************************)
(* Properties of the web app                                               *)
(***************************************************************************)
\* C25: when download_task ends after execute, the task's status is
\* "completed" exactly when execute returned; when an exception left
\* execute it is "cancelled" if the cancel event is set and "error" if not,
\* and error_message holds the text of the exception; either way progress
\* is 100
C25_TaskEndStatus ==
  [][\A t \in TaskIds :
       (thread[t].at = "execute" /\ thread'[t].at = "end") =>
         LET task == download_tasks'[t]
             exc == thread'[t].exc
         IN /\ task.status = "completed" <=> exc = << >>
            /\ exc /= << >> =>
                 /\ task.status = IF download_tasks[t].cancel_event
                                  THEN "cancelled" ELSE "error"
                 /\ \E i \in DOMAIN task.error_message :
                      task.error_message[i] = exc[2]
            /\ task.progress = 100]_vars

\* a task whose execute was left by an exception after POST /cancel, at a
\* progress below 100, has ended
C25_Witness ==
  \E t \in TaskIds :
    /\ Registered(t)
    /\ thread[t].at = "end"
    /\ thread[t].exc \in Exceptions
    /\ download_tasks[t].status = "cancelled"
    /\ download_tasks[t].error_message /= << >>
    /\ download_tasks[t].progress = 100

\* C26: a pause request for a registered task flips its paused flag, sets
\* its status to "paused" when the flag is now true and to "running" when it
\* is now false, and answers 200; for an id that is not registered it
\* answers 404 and leaves the registry and the threads as they are
C26_PauseToggles ==
  [][\A t \in TaskIds :
       (request = Req("pause", t) /\ request' = NoRequest) =>
         IF Registered(t)
         THEN /\ t \in DOMAIN download_tasks'
              /\ download_tasks'[t].paused = ~download_tasks[t].paused
              /\ download_tasks'[t].status =
                   IF download_tasks'[t].paused THEN "paused" ELSE "running"
              /\ response'.code = 200
         ELSE /\ response'.code = 404
              /\ download_tasks' = download_tasks
              /\ thread' = thread]_vars

\* a second pause request has put the flag back to false and the status
\* back to "running"
C26_Witness ==
  \E t \in TaskIds :
    /\ Registered(t)
    /\ response = Answer(200, <<t, FALSE, "running">>)
    /\ ~download_tasks[t].paused
    /\ download_tasks[t].status = "running"

(***************************************************************************)
(* Properties of the entry by URL                                          *)
(***************************************************************************)
\* C27: a URL with the prefix https://gofile.io/d/ enters the walk with the
\* content id of its path, the segment that follows the prefix, with or
\* without a trailing slash
C27_UrlResolvesToId ==
  (/\ url /= None
   /\ startswith(url)
   /\ pc = "ex_call"
   /\ stack = << >>)
  => call = url[Len(UrlPrefix) + 1]

(***************************************************************************)
(* Properties of the folder directory                                      *)
(***************************************************************************)
\* C28: in incremental mode the folder find_existing_folder returns is a
\* directory of the parent that bears the exact sanitized name or whose
\* normalized name is the target's normalized name; the directory of the
\* exact sanitized name is taken when there is one, some matching directory
\* when there is any ("NEW FILES in Foo" finds "Foo"), nothing when none
\* matches ("Foo" does not find "Bar"); execute then takes the returned
\* directory for the folder and creates none
C28_FindExistingFolder ==
  [][(fold.phase = "fetched" /\ fold'.phase /= "fetched" /\ fold.incremental) =>
       LET target == fold'.dirname
           returned == fold'.existing_folder
           subdirs == {e \in DOMAIN fold.parent.entries : fold.parent.entries[e] = "dir"}
           matches ==
             {e \in subdirs :
                \/ e = sanitized(target)
                \/ normalize_folder_name(e, fold.folder_pattern)
                     = normalize_folder_name(target, fold.folder_pattern)}
       IN /\ returned /= None => returned[1] \in matches
          /\ sanitized(target) \in subdirs => returned = Some(sanitized(target))
          /\ matches /= {} => returned /= None
          /\ (target = <<"NEW FILES in", " ", "Foo">> /\ subdirs = {<<"Foo">>})
               => returned = Some(<<"Foo">>)
          /\ (target = <<"Foo">> /\ subdirs = {<<"Bar">>}) => returned = None
          /\ returned /= None =>
               /\ fold'.folder_path = returned
               /\ fold'.parent = fold.parent
               /\ fold'.phase = "made"]_vars

\* C29: with emoji stripping, a name that stripping empties resolves to
\* folder_<content_id[:8]>, the resolved name is never empty, and the
\* folder's directory is a proper child of the parent directory: its last
\* component is not empty
C29_FolderNameNeverEmpty ==
  (fold.phase \in {"made", "raised"} /\ fold.strip_emojis) =>
    /\ strip_emojis_func(fold.name) = << >> =>
         fold.dirname = <<"folder_">> \o IdPrefix(fold.content_id)
    /\ fold.dirname /= << >>
    /\ fold.folder_path /= Some(<< >>)

(***************************************************************************)
(* Properties of the overall progress                                      *)
(***************************************************************************)
\* C30: the percents one folder's loop passes to overall_progress_callback
\* never decrease; the percent passed after the k-th counted child of N is
\* the floor of 100k/N; the last percent passed is 100
C30_OverallPercents ==
  [][(ov'.phase = "done" \/ ov'.at /= ov.at) =>
       /\ ov.percent /= None => ov.percent[1] <= ov'.percent[1]
       /\ ov'.phase = "loop" =>
            ov'.percent[1] = (ov'.files_completed * 100) \div ov'.overall_total
       /\ ov'.phase = "done" => ov'.percent[1] = 100]_vars

(***************************************************************************)
(* Properties of the order of the walk and of the last per-file value      *)
(***************************************************************************)
\* the worker is inside download
InTransfer == pc \in {"dl_loop", "dl_stream", "dl_paused", "dl_write"}

\* the child of position i of folder cid has not been begun: no transfer was
\* called for it, no directory made or refused for it, no callback given it
NotBegun(cid, i) ==
  LET c == children(cid)[i] IN
  IF c \in Files
  THEN xfers[c] = 0 /\ ~fcb[c].called
  ELSE c \notin dirs \cup failedDirs /\ ovLog[c] = << >>

\* C31: within one top-level execute call the children of every folder are
\* processed in the order of the listing, one at a time and depth-first: a
\* transfer or a recursive call begins only for the child the innermost loop
\* is at, when every child before it was counted as processed and no child
\* after it was begun; a loop moves on by one child at a time; the frame above
\* another is that of the child its folder is at; the transfer in flight is
\* the one of that child, so there is never more than one.
C31_OneChildAtATime ==
  [][/\ \A f \in Files :
          (xfers'[f] > xfers[f] /\ stack /= << >>)
            => /\ pc = "ex_loop"
               /\ f = children(Top.cid)[Top.idx]
               /\ Top.files_completed = Top.idx - 1
               /\ \A j \in (Top.idx + 1)..Len(children(Top.cid)) : NotBegun(Top.cid, j)
               /\ \A g \in Files \ {f} : xfers'[g] = xfers[g]
     /\ (pc = "ex_loop" /\ pc' = "ex_call")
          => /\ call' = children(Top.cid)[Top.idx]
             /\ Top.files_completed = Top.idx - 1
             /\ \A j \in (Top.idx + 1)..Len(children(Top.cid)) : NotBegun(Top.cid, j)
             /\ xfers' = xfers
     /\ \A i \in 1..Len(stack') :
          /\ i <= Len(stack) => /\ stack'[i].cid = stack[i].cid
                                /\ stack'[i].idx \in {stack[i].idx, stack[i].idx + 1}
          /\ i < Len(stack') => /\ stack'[i].idx = stack[i].idx
                                /\ stack'[i + 1].cid = children(stack'[i].cid)[stack'[i].idx]
     /\ (InTransfer' /\ ret' = "ex_child")
          => dl'.file = children(stack'[Len(stack')].cid)[stack'[Len(stack')].idx]]_vars

\* the last child of the top folder is in transfer, after the first file was
\* transferred and the subfolder between them was walked to its end
C31_Witness ==
  /\ pc = "dl_stream"
  /\ dl.file = "f2"
  /\ Len(stack) = 1
  /\ stack[1].idx = 3
  /\ xfers = [f \in Files |-> IF f = "f0" THEN 0 ELSE 1]
  /\ Finished("sub")

\* C32: when download has returned to execute (to a folder's loop or to the
\* file branch), the next step of execute gives the per-file callback 100 for
\* that file, whether the transfer succeeded or failed for good; once execute
\* has gone on, no file is left with -2 as the last value delivered.
C32_HundredAfterDownload ==
  [][/\ (pc = "dl_returned" /\ ret \in {"ex_child", "ex_file"} /\ pc' /= pc
         /\ cbSet /= "none")
          => fcb'[dl.file] = [called |-> TRUE, last |-> 100]
     /\ pc' /= "dl_returned" => \A f \in Files : fcb'[f].last /= -2]_vars

\* a transfer in a folder failed for good, -2 was delivered, and the value
\* the file was left with is 100
C32_Witness ==
  /\ pc = "ex_loop"
  /\ dl.outcome = "failed"
  /\ dl.nFail = 1
  /\ ~final[dl.file]
  /\ fcb[dl.file] = [called |-> TRUE, last |-> 100]
  /\ xfers[dl.file] = 1

(***************************************************************************)
(* Properties of the tracker                                               *)
(***************************************************************************)
\* the step is a mark_downloaded call
Marking == tk'.saveRes /= "none"

\* the step constructs a tracker
Constructing == tk.phase = "idle" /\ tk'.tracker /= None

C34_IncrementalRoundTrip ==
  (tk.did = "transferred" /\ tk.incremental /\ ~tk.lost)
    => \A r \in 1..(tk.runs - 1) :
         <<Text(TrackedFiles[tk.at - 1].id), r, tk.strip_emojis>> \notin tk.kept

(***************************************************************************)
(* Properties of cancellation and of the retry signal                      *)
(***************************************************************************)
\* C35: once the check after a write has seen the cancel signal (Cancelled
\* was raised), the download call sends no further request, sleeps no retry
\* delay and writes no further chunk, whatever budget is left.
C35_CancelNotRetried ==
  [][dl'.cancelAt >= 1
       => /\ dl'.requests = dl.requests
          /\ dl'.sleeps = dl.sleeps
          /\ dl.cancelAt >= 1 => dl'.written = dl.written]_vars

\* C39: with the callbacks of the web app no download call ends by an
\* exception, and every failed attempt that leaves budget has delivered -1
\* and is followed by a sleep and another pass of the retry loop.
C39_RetrySignalDelivered ==
  cbSet = "app"
    => /\ dl.outcome /= "raised"
       /\ (1 <= dl.attempts /\ dl.attempts <= retry_attempts)
            => /\ dl.nRetry = dl.attempts
               /\ dl.sleeps = dl.attempts
               /\ fcb[dl.file].called

\* C36: once the cancel signal is set, the worker of the run eventually
\* leaves execute, whatever the paused flag does from then on.
C36_CancelEndsRun == cancel ~> Left

TerminalStatuses == {"completed", "error", "cancelled"}

\* the worker of task t has ended
Over(t) == thread[t].at \in {"end", "died", "refused"}

\* C38: no request and no worker step takes the status of an entry from
\* "completed", "error" or "cancelled" to "running" or "paused", and an entry
\* shows "paused" only while its paused flag is true and its worker has not
\* ended.
C38_TerminalAbsorbing ==
  /\ [][\A t \in TaskIds :
          (/\ t \in DOMAIN download_tasks
           /\ t \in DOMAIN download_tasks'
           /\ download_tasks[t].status \in TerminalStatuses)
            => download_tasks'[t].status \notin {"running", "paused"}]_vars
  /\ [](\A t \in DOMAIN download_tasks :
          download_tasks[t].status = "paused"
            => download_tasks[t].paused /\ ~Over(t))

\* C40: once the entry of a task is gone while its worker has not ended,
\* the worker takes no further step: none that looks the entry up and none
\* that writes to disk.
C40_RemoveWhileRunning ==
  [][\A t \in TaskIds :
       (~Registered(t) /\ thread[t].at \in {"start", "execute", "write"})
         => thread'[t] = thread[t]]_vars

====
